---- MODULE Spec2Model ----
(***************************************************************************)
(* State-machine model of parts of NIFTy:                                  *)
(*   - the DomainTuple canonicalisation cache (nifty5/domain_tuple.py);    *)
(*   - the optimize_kl outer loop with its checkpoints                     *)
(*     (src/re/optimize_kl.py). OptimizeVI (re/kl.py) is known by its      *)
(*     interface only: init_state, update and the three setters;           *)
(*   - the scipy-backed minimizers (nifty5/minimization/                   *)
(*     scipy_minimizer.py); scipy is known by its interface only;          *)
(*   - Field and MultiField arithmetic (nifty5/field.py,                   *)
(*     nifty5/multi/multi_field.py);                                       *)
(*   - ScalingOperator (nifty5/operators/scaling_operator.py);             *)
(*   - Linearization (nifty5/linearization.py); the operator classes it    *)
(*     composes are known by their interface only;                         *)
(*   - the energy operators (nifty5/operators/energy_operators.py) and     *)
(*     VdotOperator, SumReductionOperator (operators/vdot_operator.py);    *)
(*   - shape, size and axes of DomainTuple and of the old Field            *)
(*     (nifty5/domain_tuple.py, nifty/field.py);                           *)
(*   - update_state of optimize_kl (src/re/optimize_kl.py);                *)
(*   - ADVIOptimizer (src/minimization/stochastic_minimizer.py);           *)
(*   - the transformation cache of the old FFT operator;                   *)
(*   - Likelihood.jit (src/likelihood.py).                                 *)
(***************************************************************************)
EXTENDS Integers, Sequences, FiniteSets, TLC

(***************************************************************************)
(* Bounds of the model.                                                    *)
(***************************************************************************)
NumDomVals == 2
MaxTupleLen == 1
MaxCalls == 3
MaxIter == 3
MaxSamples == 2
MaxRuns == 2
MaxPoint == 2
MaxEvals == 3
FieldSize == 1
MaxApplies == 2
MaxDoms == 3
MaxCfgIter == 2
MaxSteps == 2
MaxAdviCalls == 3
MaxCreates == 3

VARIABLES
    tupleCache,     \* DomainTuple._tupleCache: key -> object id, 0 = no entry
    heap,           \* the DomainTuple objects constructed so far: id -> _dom
    scalarDomain,   \* DomainTuple._scalarDomain: 0 = None, else an object id
    thr,            \* per thread: the position in make / scalar_domain
    threads,        \* the threads that call into the cache
    ncalls,         \* calls started so far
    returned,       \* history: <<key, object id>> of every finished make
    passthru,       \* history: <<in, out>> of every make(DomainTuple)
    cfg,            \* the arguments the script passes to optimize_kl
    defaults,       \* the default-argument dicts of optimize_kl (per process)
    files,          \* out_dir: the marker file and the pickles per iteration
    runs,           \* calls of optimize_kl started so far
    pc,             \* position in the running call
    resume,         \* the resume argument of the running call
    kw,             \* the kwargs dicts the running call works on
    lastIdx,        \* last_finished_index
    it,             \* the loop variable i
    key,            \* the running random key
    samples,        \* samples
    state,          \* the OptVIState
    installed,      \* the callables held by opt
    errAt,          \* where the running call raised, "" if it did not
    updLog,         \* history: the calls of opt.update of the running call
    events,          \* history: update, callback and checkpoint events of the call
    ckpt,           \* history: the last completely written checkpoint
    startCkpt,      \* history: ckpt.idx when the running call started
    prev,           \* history: where the call before the running one ended
    mzIn,           \* the minimizer object and the energy it is called with
    mzPc,           \* position in ScipyMinimizer.__call__ / ScipyCG.__call__
    mzEnergy,       \* hlp._energy.position
    mzIter,         \* the iterate x_k held by scipy's solver
    mzRes,          \* what the call returned or raised
    fa,             \* left operand (self) of a Field / MultiField call
    fb,             \* right operand (other)
    fop,            \* the operator called last, "" before the first call
    fres,           \* what the last call returned or raised
    sO,             \* the ScalingOperator at hand
    sO0,            \* history: the ScalingOperator constructed first
    sx,             \* the Field at hand
    sx0,            \* history: the Field the script started from
    sLog,           \* history: the calls made on sO, in order
    sres,           \* what the last call returned or raised
    la,             \* the Linearization self
    lb,             \* the other operand
    lop,            \* the operation called last, "" before the first call
    lres,           \* what the last call returned or raised
    ex,             \* the argument of EnergyOperator.apply
    eop,            \* the energy operator applied
    eres,           \* what apply returned or raised
    efields,        \* the numbers in the Fields fx (the argument) and fy (d)
    vO,             \* the VdotOperator or SumReductionOperator at hand
    vx,             \* a Field on the operator's domain
    vy,             \* a Field on the scalar domain
    vres,           \* what times and adjoint_times returned
    tdoms,          \* the sub-domains a DomainTuple / Field is built on
    tobj,           \* the object constructed from them
    adv,            \* the ADVIOptimizer object
    advCall,        \* the running __call__: position, loop variable, E
    advLog,         \* history: the calls made on adv, in order
    tcache,         \* _TransformationCache.cache: key -> object id
    theap,          \* the transformation objects constructed so far
    tlog,           \* history: the create calls and what they returned
    lk,             \* the Likelihood the script constructed
    lkJit,          \* lk.jit(), NoResult before the call
    lkres,          \* what metric and left_sqrt_metric did on lk and on lkJit
    uIn,            \* the arguments of one call of update_state
    uOut            \* the state it returned

dtVars == <<tupleCache, heap, scalarDomain, thr, threads, ncalls, returned,
            passthru>>

klVars == <<cfg, defaults, files, runs, pc, resume, kw, lastIdx, it, key,
            samples, state, installed, errAt, updLog, events, ckpt, startCkpt,
            prev>>

mzVars == <<mzIn, mzPc, mzEnergy, mzIter, mzRes>>

fdVars == <<fa, fb, fop, fres>>

scVars == <<sO, sO0, sx, sx0, sLog, sres>>

lnVars == <<la, lb, lop, lres>>

enVars == <<ex, eop, eres, efields>>

vdVars == <<vO, vx, vy, vres>>

shVars == <<tdoms, tobj>>

adVars == <<adv, advCall, advLog>>

tcVars == <<tcache, theap, tlog>>

ljVars == <<lk, lkJit, lkres>>

usVars == <<uIn, uOut>>

p3Vars == <<enVars, vdVars, shVars, adVars, tcVars, ljVars, usVars>>

nfVars == <<mzVars, fdVars, scVars, lnVars, p3Vars>>

vars == <<dtVars, klVars, nfVars>>

(***************************************************************************)
(* nifty5/domain_tuple.py                                                  *)
(***************************************************************************)
\* Domain objects, up to Domain.__eq__ / __hash__ (structural equality).
DomVals == 1..NumDomVals

\* The tuples of Domains that key the cache.
Keys == UNION {[1..n -> DomVals] : n \in 0..MaxTupleLen}

ThreadIds == {"t1", "t2"}

\* What a caller may hand to make: None, one Domain, a tuple or list of
\* Domains, an iterable holding something that is no Domain, or a DomainTuple.
MakeArgs ==
    {[kind |-> "none", seq |-> <<>>, obj |-> 0]}
    \cup {[kind |-> "domain", seq |-> <<v>>, obj |-> 0] : v \in DomVals}
    \cup {[kind |-> "seq", seq |-> s, obj |-> 0] : s \in Keys}
    \cup {[kind |-> "bad", seq |-> <<>>, obj |-> 0]}
    \cup {[kind |-> "dt", seq |-> <<>>, obj |-> o] : o \in 1..Len(heap)}

ParseFails(arg) == arg.kind = "bad"

_parse_domain(arg) ==
    CASE arg.kind = "none" -> <<>>
      [] arg.kind = "domain" -> arg.seq
      [] OTHER -> arg.seq

IdleThread == [pc |-> "idle", op |-> "none", domain |-> <<>>, obj |-> 0]

\* DomainTuple._tupleCache.get(domain); 0 stands for None.
CacheGetMissAlways(cache, domain) == 0
CacheGet(cache, domain) == cache[domain]

\* DomainTuple._tupleCache[domain] = obj
CacheSet(cache, domain, obj) == [cache EXCEPT ![domain] = obj]

InitDT(ts) ==
    /\ tupleCache = [k \in Keys |-> 0]
    /\ heap = <<>>
    /\ scalarDomain = 0
    /\ threads = ts
    /\ thr = [t \in ThreadIds |-> IdleThread]
    /\ ncalls = 0
    /\ returned = {}
    /\ passthru = {}

\* make(domain), lines 72-74; op is "make" or "unpickle" (_unpickleDomainTuple
\* calls make with the pickled _dom).
MakeEnter(t) ==
    /\ t \in threads
    /\ thr[t].pc = "idle"
    /\ ncalls < MaxCalls
    /\ \E op \in {"make", "unpickle"} : \E arg \in MakeArgs :
        /\ op = "unpickle" => arg.kind = "seq"
        /\ ncalls' = ncalls + 1
        /\ IF arg.kind = "dt"
           THEN /\ thr' = [thr EXCEPT ![t] = IdleThread]
                /\ passthru' = passthru \cup {<<arg.obj, arg.obj>>}
           ELSE /\ passthru' = passthru
                /\ IF ParseFails(arg)
                   THEN thr' = [thr EXCEPT ![t] = IdleThread]
                   ELSE thr' = [thr EXCEPT ![t] =
                            [pc |-> "get", op |-> op,
                             domain |-> _parse_domain(arg), obj |-> 0]]
    /\ UNCHANGED <<klVars, nfVars>>
    /\ UNCHANGED <<tupleCache, heap, scalarDomain, threads, returned>>

\* scalar_domain(), line 154: the test of _scalarDomain, then make(()).
ScalarEnter(t) ==
    /\ t \in threads
    /\ thr[t].pc = "idle"
    /\ ncalls < MaxCalls
    /\ ncalls' = ncalls + 1
    /\ IF scalarDomain # 0
       THEN thr' = [thr EXCEPT ![t] =
                [pc |-> "done", op |-> "scalar_hit", domain |-> <<>>,
                 obj |-> scalarDomain]]
       ELSE thr' = [thr EXCEPT ![t] =
                [pc |-> "get", op |-> "scalar", domain |-> <<>>, obj |-> 0]]
    /\ UNCHANGED <<klVars, nfVars>>
    /\ UNCHANGED <<tupleCache, heap, scalarDomain, threads, returned,
                   passthru>>

\* lines 75-77: the lookup, and the return of a cached object.
MakeLookup(t) ==
    /\ t \in threads
    /\ thr[t].pc = "get"
    /\ LET obj == CacheGet(tupleCache, thr[t].domain) IN
        IF obj # 0
        THEN thr' = [thr EXCEPT ![t].pc = "made", ![t].obj = obj]
        ELSE thr' = [thr EXCEPT ![t].pc = "construct"]
    /\ UNCHANGED <<klVars, nfVars>>
    /\ UNCHANGED <<tupleCache, heap, scalarDomain, threads, ncalls, returned,
                   passthru>>

\* line 78: obj = DomainTuple(domain, _callingfrommake=True)
MakeConstruct(t) ==
    /\ t \in threads
    /\ thr[t].pc = "construct"
    /\ heap' = Append(heap, thr[t].domain)
    /\ thr' = [thr EXCEPT ![t].pc = "store", ![t].obj = Len(heap) + 1]
    /\ UNCHANGED <<klVars, nfVars>>
    /\ UNCHANGED <<tupleCache, scalarDomain, threads, ncalls, returned,
                   passthru>>

\* lines 79-80: the insert, and the return of the new object.
MakeStore(t) ==
    /\ t \in threads
    /\ thr[t].pc = "store"
    /\ tupleCache' = CacheSet(tupleCache, thr[t].domain, thr[t].obj)
    /\ thr' = [thr EXCEPT ![t].pc = "made"]
    /\ UNCHANGED <<klVars, nfVars>>
    /\ UNCHANGED <<heap, scalarDomain, threads, ncalls, returned, passthru>>

\* make has returned obj to its caller; scalar_domain stores it (line 155).
MakeReturn(t) ==
    /\ t \in threads
    /\ thr[t].pc = "made"
    /\ returned' = returned \cup {<<thr[t].domain, thr[t].obj>>}
    /\ scalarDomain' = IF thr[t].op = "scalar" THEN thr[t].obj
                       ELSE scalarDomain
    /\ thr' = [thr EXCEPT ![t].pc = "done"]
    /\ UNCHANGED <<klVars, nfVars>>
    /\ UNCHANGED <<tupleCache, heap, threads, ncalls, passthru>>

\* The caller drops the result and is free for its next call.
CallerDone(t) ==
    /\ t \in threads
    /\ thr[t].pc = "done"
    /\ thr' = [thr EXCEPT ![t] = IdleThread]
    /\ UNCHANGED <<klVars, nfVars>>
    /\ UNCHANGED <<tupleCache, heap, scalarDomain, threads, ncalls, returned,
                   passthru>>

\* Calls with equal parsed arguments returned one object, make of a
\* DomainTuple returned its argument, _scalarDomain is what make(()) returned.
C3_SameObjectPerKey ==
    /\ \A r1 \in returned : \A r2 \in returned :
          r1[1] = r2[1] => r1[2] = r2[2]
    /\ \A p \in passthru : p[1] = p[2]
    /\ scalarDomain # 0 => <<<<>>, scalarDomain>> \in returned

\* A step neither removes nor rebinds an entry of the cache.
C3_EntryKept ==
    \A k \in Keys : tupleCache[k] # 0 => tupleCache'[k] = tupleCache[k]

\* C3: in any sequence of calls, make calls with equal parsed arguments return
\* the identical object (also through scalar_domain and unpickling), make of a
\* DomainTuple returns that DomainTuple, and a cache entry once stored is
\* neither removed nor rebound.
C3_CanonicalAppendOnly == []C3_SameObjectPerKey /\ [][C3_EntryKept]_vars

\* A later call (here through unpickling) returns the object an earlier call
\* with an equal key returned, after a make(DomainTuple) has happened too.
C3_Witness ==
    /\ passthru # {}
    /\ \E t \in threads :
          /\ thr[t].pc = "made"
          /\ thr[t].op = "unpickle"
          /\ <<thr[t].domain, thr[t].obj>> \in returned

\* C4: two threads that call make concurrently with equal, not yet cached
\* domains both receive the same object, and it is the cached one.
C4_ConcurrentMakeSameObject ==
    \A t1 \in threads : \A t2 \in threads :
        ( /\ thr[t1].pc \in {"made", "done"}
          /\ thr[t2].pc \in {"made", "done"}
          /\ thr[t1].op \in {"make", "unpickle"}
          /\ thr[t2].op \in {"make", "unpickle"}
          /\ thr[t1].domain = thr[t2].domain )
        => /\ thr[t1].obj = thr[t2].obj
           /\ tupleCache[thr[t1].domain] = thr[t1].obj

NextDT ==
    \E t \in ThreadIds :
        \/ MakeEnter(t)
        \/ ScalarEnter(t)
        \/ MakeLookup(t)
        \/ MakeConstruct(t)
        \/ MakeStore(t)
        \/ MakeReturn(t)
        \/ CallerDone(t)

(***************************************************************************)
(* src/re/optimize_kl.py                                                   *)
(***************************************************************************)
Methods == {"linear", "geometric", "altmetric"}
ViVals == {"none", "A", "B"}
CcVals == {"c1", "c2"}

\* _make_callable and _getitem, lines 19-29: every entry of the configuration
\* is read as a function of the iteration number. seq holds its values at
\* 0 .. T-1; it is total, and constant from T-1 on.
At(seq, j) == seq[IF j + 1 <= Len(seq) THEN j + 1 ELSE Len(seq)]

NSamples(c, j) == At(c.nS, j)
Resample(c, j) == At(c.rs, j)
Method(c, j) == At(c.meth, j)
Vic(c, j) == At(c.vic, j)
Cc(c, j) == At(c.cc, j)

\* The arguments of a script that leaves everything at its default, for
\* total_iterations = T and a constant n_samples.
BaseCfg(T) ==
    [T |-> T,
     nS |-> [j \in 1..T |-> 1],
     rs |-> [j \in 1..T |-> FALSE],
     meth |-> [j \in 1..T |-> "altmetric"],
     vic |-> [j \in 1..T |-> "none"],
     cc |-> [j \in 1..T |-> "c1"],
     conv |-> [j \in 1..T |-> FALSE],
     cb |-> FALSE,
     out |-> TRUE,
     likCallable |-> FALSE,
     verb |-> 1,
     klKind |-> "default",
     suKind |-> "default"]

\* The 'method_options' of a kwargs dict: its 'name' entry and the 'name'
\* entry of its 'cg_kwargs' ("absent": no such entry, "noname": cg_kwargs is
\* there and holds no name).
SourceDefaults ==
    [lin |-> [name |-> "absent"],
     kl |-> [name |-> "absent", cg |-> "absent"],
     su |-> [name |-> "absent", cg |-> "absent"]]

UnsetMO == [name |-> "unset", cg |-> "unset"]

\* The dict a call works on: the shared default object, or a dict the caller
\* builds for the call.
ArgDict(kind, def) ==
    CASE kind = "default" -> def
      [] kind = "plain" -> [name |-> "absent", cg |-> "absent"]
      [] kind = "with_cg" -> [name |-> "absent", cg |-> "noname"]
      [] OTHER -> [name |-> "absent", cg |-> "user"]

SetDefault(v, d) == IF v = "absent" THEN d ELSE v

\* dict has no method set_default: lines 214 and 220 raise AttributeError.
CgSilenceOk(mo) == mo.cg = "absent"

\* Lines 197-224. ok = FALSE: an exception left the dicts as in k.
SetupVerbosity(verb, k) ==
    LET lin1 == IF verb < 0 THEN [name |-> "None"]
                ELSE [name |-> SetDefault(k.lin.name, "linear_sampling")]
        k1 == IF verb < 0 THEN [k EXCEPT !.lin = lin1]
              ELSE [k EXCEPT !.lin = lin1,
                             !.su.name = SetDefault(@, "non_linear_sampling")]
        k2 == IF verb < 0
              THEN [k1 EXCEPT !.kl.name = "None", !.su.name = "None"]
              ELSE [k1 EXCEPT !.kl.name = SetDefault(@, "minimize")]
        k3 == [k2 EXCEPT !.kl.cg = "None"]
        k4 == [k3 EXCEPT !.su.cg = "None"]
    IN  IF verb >= 1 THEN [ok |-> TRUE, kw |-> k2]
        ELSE IF ~CgSilenceOk(k2.kl) THEN [ok |-> FALSE, kw |-> k2]
        ELSE IF ~CgSilenceOk(k3.su) THEN [ok |-> FALSE, kw |-> k3]
        ELSE [ok |-> TRUE, kw |-> k4]

\* jax.random.split(key, num): keys[0] and keys[1:]. A key is the path of
\* splits that led to it.
Split(k, num) ==
    [running |-> Append(k, <<num, 0>>),
     subs |-> [j \in 1..(num - 1) |-> Append(k, <<num, j>>)]]

\* _do_resample, lines 74-81.
_do_resample_ignoring_count(c, iiter) ==
    IF iiter = 0 THEN TRUE ELSE Resample(c, iiter)
_do_resample(c, iiter) ==
    IF iiter = 0 THEN TRUE
    ELSE Resample(c, iiter) \/ NSamples(c, iiter) # NSamples(c, iiter - 1)

\* update_state with the method left out of sample_regenerate.
update_state_resample_only(st, c, k, iiter) ==
    [st EXCEPT
        !.sample_regenerate = _do_resample(c, iiter),
        !.sample_update = Method(c, iiter) \in {"geometric", "altmetric"},
        !.kl_solver_kwargs = k.kl,
        !.sample_update_kwargs = k.su]

\* update_state, lines 84-98 (the default of the _update_state argument).
update_state(st, c, k, iiter) ==
    [st EXCEPT
        !.sample_regenerate = Method(c, iiter) \in {"linear", "geometric"}
                              \/ _do_resample(c, iiter),
        !.sample_update = Method(c, iiter) \in {"geometric", "altmetric"},
        !.kl_solver_kwargs = k.kl,
        !.sample_update_kwargs = k.su]

\* OptimizeVI.init_state(keys, primals=pos): no samples yet, a state that
\* holds the keys.
OptInitState(keys) ==
    [samples |-> <<>>,
     state |-> [keys |-> keys, sample_regenerate |-> FALSE,
                sample_update |-> FALSE, nit |-> 0, conv |-> FALSE,
                kl_solver_kwargs |-> UnsetMO,
                sample_update_kwargs |-> UnsetMO]]

NoState == OptInitState(<<>>).state

\* OptimizeVI.update(samples, state): the new samples are a function of the
\* callables held by opt, the old samples and the state; the state counts the
\* update and carries the status the minimizer reported.
OptUpdate(c, inst, smp, st) ==
    [samples |-> Append(smp, [by |-> inst, keys |-> st.keys,
                              regen |-> st.sample_regenerate,
                              upd |-> st.sample_update]),
     state |-> [st EXCEPT !.nit = @ + 1, !.conv = At(c.conv, st.nit)]]

\* Lines 251-261: the callables opt is built with for iteration j.
CallablesAt(c, j) ==
    IF Vic(c, j) # "none" THEN <<"vi_callables", Vic(c, j)>>
    ELSE <<"optimizeVI_callables", Cc(c, j)>>

\* Lines 273-277 and 251-261: a call that does not resume.
RunInit(c, k) ==
    LET keys == Split(<<>>, NSamples(c, 0) + 1)
        ini == OptInitState(keys.subs)
    IN  [key |-> keys.running,
         samples |-> ini.samples,
         state |-> update_state(ini.state, c, k, 0),
         installed |-> CallablesAt(c, 0)]

\* Line 282.
StepUpdate(c, r) ==
    LET o == OptUpdate(c, r.installed, r.samples, r.state)
    IN  [r EXCEPT !.samples = o.samples, !.state = o.state]

\* Lines 298-321: the callables opt holds after iteration i.
Reinstall(c, i, inst) ==
    IF Vic(c, i) # "none"
    THEN IF Vic(c, i) # Vic(c, i + 1) THEN <<"vi_callables", Vic(c, i)>>
         ELSE inst
    ELSE IF Cc(c, i + 1) # Cc(c, i)
         THEN <<"optimizeVI_callables", Cc(c, i + 1)>>
         ELSE inst

\* Lines 289-321.
StepPrepare(c, k, i, r) ==
    IF i = c.T - 1 THEN r
    ELSE LET st1 == update_state(r.state, c, k, i + 1)
             keys == Split(r.key, NSamples(c, 0) + 1)
             rs == _do_resample(c, i + 1)
         IN  [key |-> IF rs THEN keys.running ELSE r.key,
              samples |-> r.samples,
              state |-> IF rs THEN [st1 EXCEPT !.keys = keys.subs] ELSE st1,
              installed |-> Reinstall(c, i, r.installed)]

\* Line 280: range(last_finished_index + 1, total_iterations) is exhausted.
LoopDoneOnConvergence(c, i) == i >= c.T \/ state.conv
LoopDone(c, i) == i >= c.T

\* Line 286.
CallbackNever(c) == FALSE
CallbackGiven(c) == c.cb

\* What the checkpoint of an iteration holds, lines 327-329.
SavedKey(r) == r.key

Absent(v) == [st |-> "absent", val |-> v]
Ok(v) == [st |-> "ok", val |-> v]
Partial(v) == [st |-> "partial", val |-> v]

NoFiles ==
    [mark |-> Absent(-1),
     key |-> [j \in 0..(MaxIter - 1) |-> Absent(<<>>)],
     samples |-> [j \in 0..(MaxIter - 1) |-> Absent(<<>>)],
     state |-> [j \in 0..(MaxIter - 1) |-> Absent(NoState)]]

NoCkpt == [idx |-> -1, key |-> <<>>, samples |-> <<>>, state |-> NoState]

Locals == [key |-> key, samples |-> samples, state |-> state,
           installed |-> installed]

LoopPcs == {"update", "print", "callback", "prepare", "wkey", "wsamples",
            "wstate", "wmark"}

InitKL(cfgs) ==
    /\ cfg \in cfgs
    /\ defaults = SourceDefaults
    /\ files = NoFiles
    /\ runs = 0
    /\ pc = "none"
    /\ resume = FALSE
    /\ kw = SourceDefaults
    /\ lastIdx = -1
    /\ it = 0
    /\ key = <<>>
    /\ samples = <<>>
    /\ state = NoState
    /\ installed = <<"none", "none">>
    /\ errAt = ""
    /\ updLog = <<>>
    /\ events = <<>>
    /\ ckpt = NoCkpt
    /\ startCkpt = -1
    /\ prev = [pc |-> "none", it |-> 0]

\* optimize_kl up to the loop, lines 188-277. The script calls it, in this
\* process or (newProc) in a fresh one, where the default dicts are new.
Call ==
    /\ pc \in {"none", "returned", "aborted"}
    /\ runs < MaxRuns
    /\ \E r \in BOOLEAN : \E newProc \in BOOLEAN :
        LET defs == IF newProc THEN SourceDefaults ELSE defaults
            kwIn == [lin |-> defs.lin,
                     kl |-> ArgDict(cfg.klKind, defs.kl),
                     su |-> ArgDict(cfg.suKind, defs.su)]
            markerBad == r /\ files.mark.st = "empty"
            lfi == IF r /\ files.mark.st = "ok" THEN files.mark.val ELSE -1
            vb == SetupVerbosity(cfg.verb, kwIn)
            loadBad == lfi > -1 /\ ~( /\ files.key[lfi].st = "ok"
                                      /\ files.samples[lfi].st = "ok"
                                      /\ files.state[lfi].st = "ok" )
            failed == markerBad \/ ~vb.ok \/ loadBad
            start == IF lfi > -1
                     THEN [key |-> files.key[lfi].val,
                           samples |-> files.samples[lfi].val,
                           state |-> files.state[lfi].val,
                           installed |-> CallablesAt(cfg, lfi + 1)]
                     ELSE RunInit(cfg, vb.kw)
        IN  /\ runs' = runs + 1
            /\ resume' = r
            /\ startCkpt' = ckpt.idx
            /\ prev' = [pc |-> pc, it |-> it]
            /\ updLog' = <<>>
            /\ events' = <<>>
            /\ defaults' =
                 IF markerBad THEN defs
                 ELSE [lin |-> vb.kw.lin,
                       kl |-> IF cfg.klKind = "default" THEN vb.kw.kl
                              ELSE defs.kl,
                       su |-> IF cfg.suKind = "default" THEN vb.kw.su
                              ELSE defs.su]
            /\ kw' = IF markerBad THEN kwIn ELSE vb.kw
            /\ lastIdx' = IF markerBad THEN -1 ELSE lfi
            /\ errAt' = IF markerBad THEN "marker"
                        ELSE IF ~vb.ok THEN "verbosity"
                        ELSE IF loadBad THEN "load"
                        ELSE ""
            /\ IF failed
               THEN /\ pc' = "aborted"
                    /\ it' = 0
                    /\ key' = <<>>
                    /\ samples' = <<>>
                    /\ state' = NoState
                    /\ installed' = <<"none", "none">>
               ELSE /\ pc' = IF LoopDone(cfg, lfi + 1) THEN "returned"
                             ELSE "update"
                    /\ it' = lfi + 1
                    /\ key' = start.key
                    /\ samples' = start.samples
                    /\ state' = start.state
                    /\ installed' = start.installed
    /\ UNCHANGED <<cfg, files, ckpt>>
    /\ UNCHANGED <<dtVars, nfVars>>

\* Line 282: samples, state = opt.update(samples, state)
Update ==
    /\ pc = "update"
    /\ updLog' = Append(updLog, [i |-> it, samples |-> samples,
                                 state |-> state, key |-> key,
                                 installed |-> installed])
    /\ events' = Append(events, [ev |-> "update", i |-> it])
    /\ LET r == StepUpdate(cfg, Locals) IN
        /\ samples' = r.samples
        /\ state' = r.state
    /\ pc' = "print"
    /\ UNCHANGED <<cfg, defaults, files, runs, resume, kw, lastIdx, it, key,
                   installed, errAt, ckpt, startCkpt, prev>>
    /\ UNCHANGED <<dtVars, nfVars>>

\* Lines 284-285: basic_status_print reads likelihood.normalized_residual,
\* which a likelihood given as a function of the iteration does not have.
StatusPrint ==
    /\ pc = "print"
    /\ IF cfg.likCallable
       THEN pc' = "aborted" /\ errAt' = "status_print"
       ELSE pc' = "callback" /\ errAt' = errAt
    /\ UNCHANGED <<cfg, defaults, files, runs, resume, kw, lastIdx, it, key,
                   samples, state, installed, updLog, events, ckpt, startCkpt, prev>>
    /\ UNCHANGED <<dtVars, nfVars>>

\* Lines 286-287.
Callback ==
    /\ pc = "callback"
    /\ events' = IF CallbackGiven(cfg)
                THEN Append(events, [ev |-> "callback", i |-> it])
                ELSE events
    /\ pc' = "prepare"
    /\ UNCHANGED <<cfg, defaults, files, runs, resume, kw, lastIdx, it, key,
                   samples, state, installed, errAt, updLog, ckpt, startCkpt, prev>>
    /\ UNCHANGED <<dtVars, nfVars>>

\* Lines 289-321, and the end of the loop body when out_dir is None.
Prepare ==
    /\ pc = "prepare"
    /\ LET r == StepPrepare(cfg, kw, it, Locals) IN
        /\ key' = r.key
        /\ samples' = r.samples
        /\ state' = r.state
        /\ installed' = r.installed
    /\ IF cfg.out
       THEN pc' = "wkey" /\ it' = it
       ELSE /\ it' = it + 1
            /\ pc' = IF LoopDone(cfg, it + 1) THEN "returned" ELSE "update"
    /\ UNCHANGED <<cfg, defaults, files, runs, resume, kw, lastIdx, errAt,
                   updLog, events, ckpt, startCkpt, prev>>
    /\ UNCHANGED <<dtVars, nfVars>>

\* Line 327.
WriteKey ==
    /\ pc = "wkey"
    /\ files' = [files EXCEPT !.key[it] = Ok(SavedKey(Locals))]
    /\ pc' = "wsamples"
    /\ UNCHANGED <<cfg, defaults, runs, resume, kw, lastIdx, it, key, samples,
                   state, installed, errAt, updLog, events, ckpt, startCkpt, prev>>
    /\ UNCHANGED <<dtVars, nfVars>>

\* Line 328.
WriteSamples ==
    /\ pc = "wsamples"
    /\ files' = [files EXCEPT !.samples[it] = Ok(samples)]
    /\ pc' = "wstate"
    /\ UNCHANGED <<cfg, defaults, runs, resume, kw, lastIdx, it, key, samples,
                   state, installed, errAt, updLog, events, ckpt, startCkpt, prev>>
    /\ UNCHANGED <<dtVars, nfVars>>

\* Line 329.
WriteState ==
    /\ pc = "wstate"
    /\ files' = [files EXCEPT !.state[it] = Ok(state)]
    /\ pc' = "wmark"
    /\ UNCHANGED <<cfg, defaults, runs, resume, kw, lastIdx, it, key, samples,
                   state, installed, errAt, updLog, events, ckpt, startCkpt, prev>>
    /\ UNCHANGED <<dtVars, nfVars>>

\* Lines 330-331, and the end of the loop body.
WriteMark ==
    /\ pc = "wmark"
    /\ files' = [files EXCEPT !.mark = Ok(it)]
    /\ ckpt' = [idx |-> it, key |-> files.key[it].val,
                samples |-> files.samples[it].val,
                state |-> files.state[it].val]
    /\ events' = Append(events, [ev |-> "checkpoint", i |-> it])
    /\ it' = it + 1
    /\ pc' = IF LoopDone(cfg, it + 1) THEN "returned" ELSE "update"
    /\ UNCHANGED <<cfg, defaults, runs, resume, kw, lastIdx, key, samples,
                   state, installed, errAt, updLog, startCkpt, prev>>
    /\ UNCHANGED <<dtVars, nfVars>>

\* The call ends inside the loop: opt.update or the callback raises, the
\* user interrupts, the process is killed. open(path, "w") has truncated the
\* file under work when this happens between the open and the write.
Abort ==
    /\ pc \in LoopPcs
    /\ \E truncated \in BOOLEAN :
        /\ truncated => pc \in {"wkey", "wsamples", "wstate", "wmark"}
        /\ files' =
             IF ~truncated THEN files
             ELSE CASE pc = "wkey" ->
                         [files EXCEPT !.key[it] = Partial(<<>>)]
                    [] pc = "wsamples" ->
                         [files EXCEPT !.samples[it] = Partial(<<>>)]
                    [] pc = "wstate" ->
                         [files EXCEPT !.state[it] = Partial(NoState)]
                    [] OTHER ->
                         [files EXCEPT !.mark = [st |-> "empty", val |-> -1]]
    /\ pc' = "aborted"
    /\ errAt' = "interrupt"
    /\ UNCHANGED <<cfg, defaults, runs, resume, kw, lastIdx, it, key, samples,
                   state, installed, updLog, events, ckpt, startCkpt, prev>>
    /\ UNCHANGED <<dtVars, nfVars>>

NextKL ==
    \/ Call
    \/ Update
    \/ StatusPrint
    \/ Callback
    \/ Prepare
    \/ WriteKey
    \/ WriteSamples
    \/ WriteState
    \/ WriteMark
    \/ Abort

\* The uninterrupted call: what it holds when it calls opt.update for j.
RECURSIVE RefBefore(_, _, _)
RefBefore(c, k, j) ==
    IF j = 0 THEN RunInit(c, k)
    ELSE StepPrepare(c, k, j - 1, StepUpdate(c, RefBefore(c, k, j - 1)))

\* The running call resumes, and the call before it was interrupted in an
\* iteration after the last complete checkpoint, or had returned.
ResumesFromCheckpoint ==
    /\ resume
    /\ pc # "none"
    /\ startCkpt >= 0
    /\ \/ prev.pc = "returned"
       \/ prev.pc = "aborted" /\ prev.it > startCkpt

\* C1: a call with resume=True made after the checkpoint of iteration k was
\* completely written executes exactly k+1, ..., total_iterations-1, and
\* passes to opt.update what the uninterrupted call passes; for
\* k = total_iterations-1 it returns the saved samples and state and never
\* calls opt.update.
C1_ResumeReplaysRemaining ==
    ResumesFromCheckpoint =>
        /\ errAt \in {"", "interrupt"}
        /\ lastIdx = startCkpt
        /\ \A n \in 1..Len(updLog) :
              /\ updLog[n].i = startCkpt + n
              /\ updLog[n].samples = RefBefore(cfg, kw, updLog[n].i).samples
              /\ updLog[n].state = RefBefore(cfg, kw, updLog[n].i).state
        /\ pc = "returned" => Len(updLog) = cfg.T - 1 - startCkpt
        /\ startCkpt = cfg.T - 1 =>
              /\ pc = "returned"
              /\ samples = ckpt.samples
              /\ state = ckpt.state

\* C2: an abort in iteration j leaves the checkpoint of the last completely
\* written iteration i < j as it was written, and the next call with
\* resume=True resumes from i without error.
C2_AbortKeepsCheckpoint ==
    /\ (pc \in LoopPcs \cup {"aborted"} /\ ckpt.idx >= 0 /\ it > ckpt.idx) =>
          /\ files.key[ckpt.idx] = Ok(ckpt.key)
          /\ files.samples[ckpt.idx] = Ok(ckpt.samples)
          /\ files.state[ckpt.idx] = Ok(ckpt.state)
    /\ (ResumesFromCheckpoint /\ prev.pc = "aborted") =>
          /\ errAt \in {"", "interrupt"}
          /\ lastIdx = startCkpt

\* C5: a call that does not resume and returns has called opt.update for
\* 0, 1, ..., total_iterations-1 in this order, whatever status the optimizer
\* state carried, and returns the samples and state of the last update.
C5_FixedIterationBudget ==
    (pc = "returned" /\ ~resume) =>
        /\ Len(updLog) = cfg.T
        /\ \A n \in 1..Len(updLog) : updLog[n].i = n - 1
        /\ Len(samples) = cfg.T
        /\ state.nit = cfg.T

\* The optimizer state said "converged" after the first update and the call
\* went on to the end of its budget.
C5_Witness ==
    /\ pc = "returned"
    /\ ~resume
    /\ Len(updLog) >= 2
    /\ updLog[2].state.conv

\* C6: the callables opt holds when opt.update is called for iteration j are
\* those of the configuration at j.
C6_CallablesOfIteration ==
    \A n \in 1..Len(updLog) :
        updLog[n].installed = CallablesAt(cfg, updLog[n].i)

\* C7: when opt.update is called for iteration i the state holds exactly
\* n_samples(i) keys.
C7_KeyCountIsNSamples ==
    \A n \in 1..Len(updLog) :
        Len(updLog[n].state.keys) = NSamples(cfg, updLog[n].i)

\* C8: between iteration i and i+1 the keys of the state are replaced by keys
\* split from the running key exactly when resample(i+1) holds or n_samples
\* changes; otherwise keys and running key stay, so without resampling every
\* iteration uses the keys of the initialization.
C8_ResampleIff ==
    /\ \A n \in 1..(Len(updLog) - 1) :
          LET a == updLog[n]
              b == updLog[n + 1]
          IN  IF Resample(cfg, a.i + 1)
                 \/ NSamples(cfg, a.i + 1) # NSamples(cfg, a.i)
              THEN \E num \in 2..(MaxSamples + 1) :
                      /\ b.key = Split(a.key, num).running
                      /\ b.state.keys = Split(a.key, num).subs
              ELSE b.key = a.key /\ b.state.keys = a.state.keys
    /\ ( /\ \A j \in 1..cfg.T : ~cfg.rs[j] /\ cfg.nS[j] = cfg.nS[1]
         /\ lastIdx = -1 )
        => \A n \in 1..Len(updLog) :
              updLog[n].state.keys = Split(<<>>, cfg.nS[1] + 1).subs

\* One call passed a boundary with new keys and a boundary without.
C8_Witness ==
    /\ \E n \in 1..(Len(updLog) - 1) :
          updLog[n + 1].state.keys # updLog[n].state.keys
    /\ \E n \in 1..(Len(updLog) - 1) :
          updLog[n + 1].state.keys = updLog[n].state.keys

\* C9: with a callback, every executed iteration i calls it exactly once, with
\* i as last argument, after opt.update for i returned and before the
\* checkpoint of i is written.
C9_CallbackOncePerIteration ==
    cfg.cb =>
        \A n \in 1..Len(events) :
            /\ events[n].ev = "update" =>
                  IF n < Len(events)
                  THEN events[n + 1] = [ev |-> "callback", i |-> events[n].i]
                  ELSE pc \in {"print", "callback", "aborted"}
            /\ events[n].ev = "callback" =>
                  n > 1 /\ events[n - 1] = [ev |-> "update", i |-> events[n].i]
            /\ events[n].ev = "checkpoint" =>
                  \E m \in 1..(n - 1) :
                      events[m] = [ev |-> "callback", i |-> events[n].i]

\* Two iterations ran with callback and checkpoint.
C9_Witness ==
    /\ cfg.cb
    /\ pc = "returned"
    /\ \E n \in 1..Len(events) : events[n] = [ev |-> "checkpoint", i |-> 1]
    /\ \E n \in 1..Len(events) : events[n] = [ev |-> "callback", i |-> 0]

\* C10: for verbosity < 1 the call sets the name of the cg_kwargs of the KL
\* solver and of the sample update to None unless the caller named them, and
\* goes on to the loop without error, also on a second call with the default
\* arguments.
C10_SilencesInnerCG ==
    (cfg.verb < 1 /\ pc # "none" /\ errAt # "marker") =>
        /\ errAt # "verbosity"
        /\ kw.kl.cg \in {"None", "user"}
        /\ kw.su.cg \in {"None", "user"}

(***************************************************************************)
(* The inputs of the specifications.                                       *)
(***************************************************************************)
SeqsOf(T, S) == [1..T -> S]

\* Resuming: out_dir is set; resample and vi_callables vary by iteration.
CfgResume ==
    UNION {{[BaseCfg(T) EXCEPT !.rs = r, !.vic = v] :
              r \in SeqsOf(T, BOOLEAN), v \in SeqsOf(T, ViVals)} :
           T \in 1..MaxIter}

\* The loop: budget, callback, out_dir and the status the optimizer reports
\* vary; the likelihood may be a function of the iteration.
CfgLoop ==
    UNION {{[BaseCfg(T) EXCEPT !.conv = v, !.cb = b, !.out = o,
                               !.likCallable = l] :
              v \in SeqsOf(T, BOOLEAN), b \in BOOLEAN, o \in BOOLEAN,
              l \in {FALSE}} \cup
           {[BaseCfg(T) EXCEPT !.likCallable = TRUE]} :
           T \in 1..MaxIter}

\* The callables: vi_callables and the constructor arguments vary.
CfgCallables ==
    UNION {{[BaseCfg(T) EXCEPT !.vic = v, !.cc = k] :
              v \in SeqsOf(T, ViVals), k \in SeqsOf(T, CcVals)} :
           T \in 1..MaxIter}

\* The keys: n_samples and resample vary (resample(0) is never used, line
\* 75); with out_dir the number of samples is 1 throughout.
ResampleSeqs(T) == {r \in SeqsOf(T, BOOLEAN) : ~r[1]}

CfgKeys ==
    UNION {{[BaseCfg(T) EXCEPT !.nS = n, !.rs = r, !.out = FALSE] :
              n \in SeqsOf(T, 1..MaxSamples), r \in ResampleSeqs(T)}
           \cup {[BaseCfg(T) EXCEPT !.rs = r] : r \in ResampleSeqs(T)} :
           T \in 1..MaxIter}

\* The verbosity and the kwargs dicts vary.
CfgVerbosity ==
    {[BaseCfg(T) EXCEPT !.verb = v, !.klKind = k, !.suKind = u] :
        T \in 1..MaxIter, v \in {-1, 0, 1},
        k \in {"default", "plain", "with_cg", "with_cg_named"},
        u \in {"default", "plain", "with_cg", "with_cg_named"}}

(***************************************************************************)
(* nifty5/minimization/scipy_minimizer.py                                  *)
(***************************************************************************)
\* Positions of an energy, as _toArray / _toField carry them to and from scipy.
Points == 0..MaxPoint

\* The values of self._bounds: None, a pair, anything else.
BoundsVals == {"none", "pair", "bad"}

MinInputs ==
    [cls : {"ScipyMinimizer", "ScipyCG"}, bounds : BoundsVals,
     quadratic : BOOLEAN, x0 : Points]

NoResult == [kind |-> "none"]

IdleMZ ==
    /\ mzIn = [cls |-> "ScipyMinimizer", bounds |-> "none",
               quadratic |-> TRUE, x0 |-> 0]
    /\ mzPc = "idle"
    /\ mzEnergy = 0
    /\ mzIter = [x |-> 0, nfev |-> 0]
    /\ mzRes = NoResult

InitMZ ==
    /\ mzIn \in MinInputs
    /\ mzPc = "idle"
    /\ mzEnergy = mzIn.x0
    /\ mzIter = [x |-> mzIn.x0, nfev |-> 0]
    /\ mzRes = NoResult

\* _MinHelper._update: the helper moves its energy to the point it is asked
\* about, unless it is there already.
_update(energy, x) == IF x # energy THEN x ELSE energy

\* What __call__ hands back with the status ERROR / CONVERGED.
ReturnedEnergy(helperEnergy, r) == helperEnergy

\* ScipyMinimizer.__call__ up to the call of opt.minimize.
MinCall ==
    /\ mzPc = "idle"
    /\ mzIn.cls = "ScipyMinimizer"
    /\ IF mzIn.bounds = "bad"
       THEN /\ mzPc' = "done"
            /\ mzRes' = [kind |-> "ValueError"]
       ELSE /\ mzPc' = "solving"
            /\ mzRes' = mzRes
    /\ mzEnergy' = mzIn.x0
    /\ mzIter' = [x |-> mzIn.x0, nfev |-> 0]
    /\ UNCHANGED mzIn
    /\ UNCHANGED <<dtVars, klVars, fdVars, scVars, lnVars, p3Vars>>

\* opt.minimize evaluates hlp.fun / hlp.jac / hlp.hessp at a point x.
SolverEval(x) ==
    /\ mzPc = "solving"
    /\ mzIter.nfev < MaxEvals
    /\ mzEnergy' = _update(mzEnergy, x)
    /\ mzIter' = [mzIter EXCEPT !.nfev = @ + 1]
    /\ UNCHANGED <<mzIn, mzPc, mzRes>>
    /\ UNCHANGED <<dtVars, klVars, fdVars, scVars, lnVars, p3Vars>>

\* opt.minimize accepts the point evaluated last as its next iterate.
SolverStep ==
    /\ mzPc = "solving"
    /\ mzIter.x # mzEnergy
    /\ mzIter' = [mzIter EXCEPT !.x = mzEnergy]
    /\ UNCHANGED <<mzIn, mzPc, mzEnergy, mzRes>>
    /\ UNCHANGED <<dtVars, klVars, fdVars, scVars, lnVars, p3Vars>>

\* opt.minimize returns r; __call__ returns the helper's energy and a status.
MinReturn(success) ==
    /\ mzPc = "solving"
    /\ LET r == [x |-> mzIter.x, success |-> success]
       IN mzRes' = [kind |-> "return",
                    pos |-> ReturnedEnergy(mzEnergy, r),
                    status |-> IF ~r.success THEN "ERROR" ELSE "CONVERGED",
                    r |-> r]
    /\ mzPc' = "done"
    /\ UNCHANGED <<mzIn, mzEnergy, mzIter>>
    /\ UNCHANGED <<dtVars, klVars, fdVars, scVars, lnVars, p3Vars>>

\* The values of info that scipy's cg returns: 0 when the tolerance was met,
\* the number of iterations (> 0) when maxiter was exhausted, < 0 on breakdown.
CgInfos == {-1, 0} \cup (1..MaxEvals)

\* The status ScipyCG makes of info.
CgStatus(info) == IF info >= 0 THEN "CONVERGED" ELSE "ERROR"

\* ScipyCG.__call__, with cg as scipy's solver returning (res, info).
CGCall ==
    /\ mzPc = "idle"
    /\ mzIn.cls = "ScipyCG"
    /\ IF ~mzIn.quadratic
       THEN /\ mzRes' = [kind |-> "ValueError"]
            /\ UNCHANGED <<mzEnergy, mzIter>>
       ELSE \E res \in Points, info \in CgInfos :
              /\ mzRes' = [kind |-> "return", pos |-> res,
                           status |-> CgStatus(info),
                           r |-> [x |-> res, info |-> info]]
              /\ mzEnergy' = res
              /\ mzIter' = [x |-> res, nfev |-> IF info > 0 THEN info ELSE 0]
    /\ mzPc' = "done"
    /\ UNCHANGED mzIn
    /\ UNCHANGED <<dtVars, klVars, fdVars, scVars, lnVars, p3Vars>>

NextMZ ==
    \/ MinCall
    \/ \E x \in Points : SolverEval(x)
    \/ SolverStep
    \/ \E success \in BOOLEAN : MinReturn(success)
    \/ CGCall

\* C11: ScipyMinimizer.__call__ raises nothing for a solver that stops without
\* success; it returns ERROR then and CONVERGED on success, in both cases with
\* the energy positioned at the iterate r.x the solver ended with.
C11_ReturnsSolverIterate ==
    (mzIn.cls = "ScipyMinimizer" /\ mzRes.kind = "return")
        => /\ mzRes.pos = mzRes.r.x
           /\ mzRes.status = (IF mzRes.r.success THEN "CONVERGED" ELSE "ERROR")

\* C12: ScipyCG.__call__ rejects an energy that is not quadratic with
\* ValueError, returns the energy at the last iterate of cg, and reports
\* CONVERGED only for info = 0.
C12_ConvergedOnlyWithinTolerance ==
    (mzIn.cls = "ScipyCG" /\ mzPc = "done")
        => IF ~mzIn.quadratic
           THEN mzRes.kind = "ValueError"
           ELSE /\ mzRes.kind = "return"
                /\ mzRes.pos = mzRes.r.x
                /\ (mzRes.status = "CONVERGED") <=> (mzRes.r.info = 0)

(***************************************************************************)
(* The numbers held by arrays: floating-point values as exact rationals    *)
(* <<n, d>> with d > 0, together with inf = <<1, 0>>, -inf = <<-1, 0>> and *)
(* nan = <<0, 0>>, combined as numpy combines them (rounding aside).       *)
(***************************************************************************)
RECURSIVE Gcd(_, _)
Gcd(a, b) == IF b = 0 THEN a ELSE Gcd(b, a % b)

AbsInt(n) == IF n < 0 THEN -n ELSE n

SgnInt(n) == IF n < 0 THEN -1 ELSE IF n = 0 THEN 0 ELSE 1

\* The rational n/d in lowest terms, d # 0.
Norm(n, d) ==
    LET g == Gcd(AbsInt(n), AbsInt(d))
    IN <<(SgnInt(d) * n) \div g, AbsInt(d) \div g>>

Q(n) == <<n, 1>>

PInf == <<1, 0>>

NInf == <<-1, 0>>

NaN == <<0, 0>>

IsNaN(x) == x = NaN

IsInf(x) == x[2] = 0 /\ x[1] # 0

IsZero(x) == x[1] = 0 /\ x[2] # 0

Sgn(x) == SgnInt(x[1])

SignedInf(s) == IF s < 0 THEN NInf ELSE PInf

FNeg(x) == <<-x[1], x[2]>>

FAbs(x) == <<AbsInt(x[1]), x[2]>>

FAdd(x, y) ==
    IF IsNaN(x) \/ IsNaN(y) THEN NaN
    ELSE IF IsInf(x) THEN (IF IsInf(y) /\ y # x THEN NaN ELSE x)
    ELSE IF IsInf(y) THEN y
    ELSE Norm(x[1] * y[2] + y[1] * x[2], x[2] * y[2])

FSub(x, y) == FAdd(x, FNeg(y))

FMul(x, y) ==
    IF IsNaN(x) \/ IsNaN(y) THEN NaN
    ELSE IF IsInf(x) \/ IsInf(y)
         THEN (IF IsZero(x) \/ IsZero(y) THEN NaN
               ELSE SignedInf(Sgn(x) * Sgn(y)))
    ELSE Norm(x[1] * y[1], x[2] * y[2])

FTrueDiv(x, y) ==
    IF IsNaN(x) \/ IsNaN(y) THEN NaN
    ELSE IF IsInf(y) THEN (IF IsInf(x) THEN NaN ELSE Q(0))
    ELSE IF IsZero(y) THEN (IF IsZero(x) THEN NaN ELSE SignedInf(Sgn(x)))
    ELSE IF IsInf(x) THEN SignedInf(Sgn(x) * Sgn(y))
    ELSE Norm(x[1] * y[2], x[2] * y[1])

FFloor(x) == IF x[2] = 0 THEN x ELSE Q(x[1] \div x[2])

FFloorDiv(x, y) ==
    IF IsNaN(x) \/ IsNaN(y) \/ IsInf(x) THEN NaN
    ELSE IF IsInf(y)
         THEN (IF IsZero(x) \/ Sgn(x) = Sgn(y) THEN Q(0) ELSE Q(-1))
    ELSE FFloor(FTrueDiv(x, y))

FLess(x, y) ==
    IF IsNaN(x) \/ IsNaN(y) \/ x = y THEN FALSE
    ELSE IF IsInf(x) THEN Sgn(x) < 0
    ELSE IF IsInf(y) THEN Sgn(y) > 0
    ELSE x[1] * y[2] < y[1] * x[2]

FEq(x, y) == ~IsNaN(x) /\ ~IsNaN(y) /\ x = y

\* numpy's bool as a number.
FBool(b) == IF b THEN Q(1) ELSE Q(0)

\* x ** y for an exponent that is an integer, inf, -inf or nan.
FPow(x, y) ==
    IF IsZero(y) \/ x = Q(1) THEN Q(1)
    ELSE IF IsNaN(x) \/ IsNaN(y) \/ y[2] > 1 THEN NaN
    ELSE IF IsInf(y)
         THEN (IF FAbs(x) = Q(1) THEN Q(1)
               ELSE IF FLess(Q(1), FAbs(x)) = (Sgn(y) > 0) THEN PInf
               ELSE Q(0))
    ELSE IF IsInf(x)
         THEN (IF y[1] < 0 THEN Q(0)
               ELSE IF Sgn(x) < 0 /\ y[1] % 2 = 1 THEN NInf ELSE PInf)
    ELSE IF y[1] > 0 THEN Norm(x[1] ^ y[1], x[2] ^ y[1])
    ELSE IF IsZero(x) THEN PInf
    ELSE Norm(x[2] ^ (-y[1]), x[1] ^ (-y[1]))

RECURSIVE FSum(_)
FSum(arr) == IF arr = <<>> THEN Q(0) ELSE FAdd(Head(arr), FSum(Tail(arr)))

\* The binary ufunc behind the special method op of an array.
Ufunc(op, x, y) ==
    CASE op \in {"__add__", "__radd__"} -> FAdd(x, y)
      [] op = "__sub__" -> FSub(x, y)
      [] op = "__rsub__" -> FSub(y, x)
      [] op \in {"__mul__", "__rmul__"} -> FMul(x, y)
      [] op = "__truediv__" -> FTrueDiv(x, y)
      [] op = "__rtruediv__" -> FTrueDiv(y, x)
      [] op = "__floordiv__" -> FFloorDiv(x, y)
      [] op = "__rfloordiv__" -> FFloorDiv(y, x)
      [] op = "__pow__" -> FPow(x, y)
      [] op = "__rpow__" -> FPow(y, x)
      [] op = "__lt__" -> FBool(FLess(x, y))
      [] op = "__le__" -> FBool(FLess(x, y) \/ FEq(x, y))
      [] op = "__gt__" -> FBool(FLess(y, x))
      [] op = "__ge__" -> FBool(FLess(y, x) \/ FEq(x, y))
      [] op = "__eq__" -> FBool(FEq(x, y))
      [] op = "__ne__" -> FBool(~FEq(x, y))

\* array op array, elementwise.
ArrOp(op, a, b) == [i \in 1..Len(a) |-> Ufunc(op, a[i], b[i])]

\* array op scalar, the scalar broadcast.
ArrScalarOp(op, a, s) == [i \in 1..Len(a) |-> Ufunc(op, a[i], s)]

(***************************************************************************)
(* nifty5/field.py                                                         *)
(***************************************************************************)
\* DomainTuple objects a Field can sit on. d1 and d2 are two objects with the
\* same content (an object built beside the cache), e1 has another content.
\* All have the shape (FieldSize,).
FieldDoms == {"d1", "d2", "e1"}

DomContent(d) == IF d = "e1" THEN "Y" ELSE "X"

\* _uni of a Field built from an array.
None == <<>>

\* The entries the arrays of the model are filled with.
FVals == {Q(-1), Q(0), Q(1), Q(2), PInf}

\* dobj.uniform_full(domain.shape, val)
uniform_full(val) == [i \in 1..FieldSize |-> val]

\* Field(domain, val) for a scalar val and for a data_object val.
FieldOfScalar(domain, val) ==
    [dom |-> domain, uni |-> val, val |-> uniform_full(val)]

FieldOfArray(domain, arr) == [dom |-> domain, uni |-> None, val |-> arr]

Fields ==
    {FieldOfScalar(d, v) : d \in FieldDoms, v \in FVals}
    \cup {FieldOfArray(d, a) : d \in FieldDoms, a \in [1..FieldSize -> FVals]}

Returned(f) == [kind |-> "field", f |-> f]

Scalar(v) == [kind |-> "scalar", v |-> v]

ValueError == [kind |-> "ValueError"]

TypeError == [kind |-> "TypeError"]

\* A comparison of the two domains by ==, which looks at the contents.
DomainNotEqual(self, other) == DomContent(other.dom) # DomContent(self.dom)

\* other._domain is not self._domain
DomainIsNot(self, other) == other.dom # self.dom

\* self._uni == s (None equals no number)
UniIs(f, s) == f.uni # None /\ FEq(f.uni, s)

__neg__(self) ==
    IF self.uni = None
    THEN FieldOfArray(self.dom, [i \in 1..Len(self.val) |-> FNeg(self.val[i])])
    ELSE FieldOfScalar(self.dom, FNeg(self.uni))

__add__(self, other) ==
    IF DomainIsNot(self, other) THEN ValueError
    ELSE IF self.uni = None
    THEN IF other.uni = None
         THEN Returned(FieldOfArray(self.dom,
                                    ArrOp("__add__", self.val, other.val)))
         ELSE IF UniIs(other, Q(0)) THEN Returned(self)
         ELSE Returned(FieldOfArray(self.dom,
                           ArrScalarOp("__add__", self.val, other.uni)))
    ELSE IF UniIs(self, Q(0)) THEN Returned(other)
         ELSE IF other.uni = None
         THEN Returned(FieldOfArray(self.dom,
                           ArrScalarOp("__add__", other.val, self.uni)))
         ELSE Returned(FieldOfScalar(self.dom, FAdd(self.uni, other.uni)))

__radd__(self, other) == __add__(self, other)

__sub__(self, other) ==
    IF DomainIsNot(self, other) THEN ValueError
    ELSE IF self.uni = None
    THEN IF other.uni = None
         THEN Returned(FieldOfArray(self.dom,
                                    ArrOp("__sub__", self.val, other.val)))
         ELSE IF UniIs(other, Q(0)) THEN Returned(self)
         ELSE Returned(FieldOfArray(self.dom,
                           ArrScalarOp("__sub__", self.val, other.uni)))
    ELSE IF UniIs(self, Q(0)) THEN Returned(__neg__(other))
         ELSE IF other.uni = None
         THEN Returned(FieldOfArray(self.dom,
                           ArrScalarOp("__rsub__", other.val, self.uni)))
         ELSE Returned(FieldOfScalar(self.dom, FSub(self.uni, other.uni)))

__mul__(self, other) ==
    IF DomainIsNot(self, other) THEN ValueError
    ELSE IF self.uni = None
    THEN IF other.uni = None
         THEN Returned(FieldOfArray(self.dom,
                                    ArrOp("__mul__", self.val, other.val)))
         ELSE IF UniIs(other, Q(1)) THEN Returned(self)
         ELSE IF UniIs(other, Q(0)) THEN Returned(other)
         ELSE Returned(FieldOfArray(self.dom,
                           ArrScalarOp("__mul__", self.val, other.uni)))
    ELSE IF UniIs(self, Q(1)) THEN Returned(other)
         ELSE IF UniIs(self, Q(0)) THEN Returned(self)
         ELSE IF other.uni = None
         THEN Returned(FieldOfArray(self.dom,
                           ArrScalarOp("__mul__", other.val, self.uni)))
         ELSE Returned(FieldOfScalar(self.dom, FMul(self.uni, other.uni)))

\* Field.__mul__ for a scalar other.
MulScalar(self, s) ==
    IF self.uni = None
    THEN IF FEq(s, Q(1)) THEN self
         ELSE IF FEq(s, Q(0)) THEN FieldOfScalar(self.dom, s)
         ELSE FieldOfArray(self.dom, ArrScalarOp("__mul__", self.val, s))
    ELSE FieldOfScalar(self.dom, FMul(self.uni, s))

\* The operators that the loop over op names installs on Field. __div__ and
\* __rdiv__ are in the list too; Python 3 never dispatches to them.
GeneratedOps ==
    {"__rsub__", "__rmul__", "__truediv__", "__rtruediv__", "__floordiv__",
     "__rfloordiv__", "__pow__", "__rpow__", "__lt__", "__le__", "__gt__",
     "__ge__", "__eq__", "__ne__"}

\* func2 of that loop, for a Field other.
func2(op, self, other) ==
    IF DomainIsNot(self, other) THEN ValueError
    ELSE Returned(FieldOfArray(self.dom, ArrOp(op, self.val, other.val)))

InplaceOps ==
    {"__iadd__", "__isub__", "__imul__", "__itruediv__", "__ifloordiv__",
     "__ipow__"}

\* func2 of the loop over the in-place names.
inplace_func2(op, self, other) == TypeError

\* Field.vdot over all sub-domains, real data.
vdot(self, x) ==
    IF DomainIsNot(self, x) THEN ValueError
    ELSE Scalar(FSum(ArrOp("__mul__", self.val, x.val)))

\* Field.sum() over all sub-domains.
sum(self) == Scalar(FSum(self.val))

\* self op other as Python dispatches it between two Fields.
BinaryOps == {"__add__", "__radd__", "__sub__", "__mul__"} \cup GeneratedOps

FieldBinary(op, self, other) ==
    CASE op = "__add__" -> __add__(self, other)
      [] op = "__radd__" -> __radd__(self, other)
      [] op = "__sub__" -> __sub__(self, other)
      [] op = "__mul__" -> __mul__(self, other)
      [] OTHER -> func2(op, self, other)

InitFD ==
    /\ fa \in Fields
    /\ fb \in Fields
    /\ fop = ""
    /\ fres = NoResult

FieldAdd ==
    /\ \E op \in {"__add__", "__radd__"} :
         fop' = op /\ fres' = FieldBinary(op, fa, fb)
    /\ UNCHANGED <<fa, fb>>
    /\ UNCHANGED <<dtVars, klVars, mzVars, scVars, lnVars, p3Vars>>

FieldSub ==
    /\ fop' = "__sub__"
    /\ fres' = __sub__(fa, fb)
    /\ UNCHANGED <<fa, fb>>
    /\ UNCHANGED <<dtVars, klVars, mzVars, scVars, lnVars, p3Vars>>

FieldMul ==
    /\ fop' = "__mul__"
    /\ fres' = __mul__(fa, fb)
    /\ UNCHANGED <<fa, fb>>
    /\ UNCHANGED <<dtVars, klVars, mzVars, scVars, lnVars, p3Vars>>

FieldGenerated(op) ==
    /\ fop' = op
    /\ fres' = func2(op, fa, fb)
    /\ UNCHANGED <<fa, fb>>
    /\ UNCHANGED <<dtVars, klVars, mzVars, scVars, lnVars, p3Vars>>

FieldInplace(op) ==
    /\ fop' = op
    /\ fres' = inplace_func2(op, fa, fb)
    /\ UNCHANGED <<fa, fb>>
    /\ UNCHANGED <<dtVars, klVars, mzVars, scVars, lnVars, p3Vars>>

FieldVdot ==
    /\ fop' = "vdot"
    /\ fres' = vdot(fa, fb)
    /\ UNCHANGED <<fa, fb>>
    /\ UNCHANGED <<dtVars, klVars, mzVars, scVars, lnVars, p3Vars>>

FieldSum ==
    /\ fop' = "sum"
    /\ fres' = sum(fa)
    /\ UNCHANGED <<fa, fb>>
    /\ UNCHANGED <<dtVars, klVars, mzVars, scVars, lnVars, p3Vars>>

NextFD ==
    \/ FieldAdd
    \/ FieldSub
    \/ FieldMul
    \/ \E op \in GeneratedOps : FieldGenerated(op)
    \/ \E op \in InplaceOps : FieldInplace(op)
    \/ FieldVdot
    \/ FieldSum

\* C13: a binary operator or vdot between two Fields raises ValueError and
\* gives no Field when the domains are not the identical DomainTuple object;
\* with the identical object no domain error is raised, for operands stored
\* as a uniform value or as an array.
C13_DomainIdentityRequired ==
    (fop \in BinaryOps \cup {"vdot"})
        => (fres.kind = "ValueError") <=> (fa.dom # fb.dom)

\* A call between two different DomainTuple objects of equal content was
\* refused, and one between a uniform and an array operand on one object gave
\* a Field.
C13_Witness ==
    \/ /\ fop \in GeneratedOps
       /\ fa.dom = "d1" /\ fb.dom = "d2"
       /\ fres.kind = "ValueError"
    \/ /\ fop = "__mul__"
       /\ fa.dom = fb.dom /\ fa.uni # None /\ fb.uni = None
       /\ fres.kind = "field"

\* C14: the in-place operators of a Field raise TypeError, no call changes
\* its operands, and +, - and * give elementwise what the arrays of the two
\* operands give, also where a uniform operand lets them return an operand.
C14_ImmutableAndShortcutsExact ==
    /\ fop \in InplaceOps => fres.kind = "TypeError"
    /\ (fop \in {"__add__", "__radd__", "__sub__", "__mul__"}
        /\ fres.kind = "field")
           => /\ fres.f.dom = fa.dom
              /\ fres.f.val = ArrOp(fop, fa.val, fb.val)

(***************************************************************************)
(* nifty5/multi/multi_field.py                                             *)
(***************************************************************************)
\* The keys of the MultiDomain and the DomainTuple each key maps to.
MKeys == {"a", "b"}

KeyDom(k) == IF k = "a" THEN "d1" ELSE "e1"

\* Two MultiDomain objects with these keys.
MultiDoms == {"m1", "m2"}

\* A missing entry: None in the tuple _val.
NoField == [dom |-> "", uni |-> None, val |-> <<>>]

MVals == {Q(0), Q(2)}

MEntries(k) ==
    {NoField}
    \cup {FieldOfScalar(KeyDom(k), v) : v \in MVals}
    \cup {FieldOfArray(KeyDom(k), a) : a \in [1..FieldSize -> MVals]}

\* MultiField(domain, val)
MultiField(domain, val) == [mdom |-> domain, val |-> val]

MultiFields(doms) ==
    {MultiField(d, [k \in MKeys |-> IF k = "a" THEN ea ELSE eb]) :
        d \in doms, ea \in MEntries("a"), eb \in MEntries("b")}

\* func2 of the loop over the binary operator names, for a MultiField other.
multi_func2(op, self, other) ==
    IF self.mdom # other.mdom THEN ValueError
    ELSE Returned(MultiField(self.mdom,
            [k \in MKeys |->
                LET v1 == self.val[k]
                    v2 == other.val[k]
                IN IF v1 # NoField
                   THEN IF v2 = NoField
                        THEN FieldBinary(op, v1, MulScalar(v1, Q(0))).f
                        ELSE FieldBinary(op, v1, v2).f
                   ELSE IF v2 = NoField
                        THEN NoField
                        ELSE FieldBinary(op, MulScalar(v2, Q(0)), v2).f]))

MultiOps == BinaryOps \cup {"__rsub__", "__rmul__"}

\* func2 of the loop over the in-place names.
multi_inplace_func2(op, self, other) == TypeError

RECURSIVE VdotOver(_, _, _)
VdotOver(keys, self, x) ==
    IF keys = {} THEN Q(0)
    ELSE LET k == CHOOSE kk \in keys : TRUE
             rest == VdotOver(keys \ {k}, self, x)
         IN IF self.val[k] # NoField /\ x.val[k] # NoField
            THEN FAdd(rest, vdot(self.val[k], x.val[k]).v)
            ELSE rest

\* MultiField.vdot
multi_vdot(self, x) ==
    IF x.mdom # self.mdom THEN ValueError
    ELSE Scalar(VdotOver(MKeys, self, x))

InitMF ==
    /\ fa \in MultiFields({"m1"})
    /\ fb \in MultiFields(MultiDoms)
    /\ fop = ""
    /\ fres = NoResult

MultiGenerated(op) ==
    /\ fop' = op
    /\ fres' = multi_func2(op, fa, fb)
    /\ UNCHANGED <<fa, fb>>
    /\ UNCHANGED <<dtVars, klVars, mzVars, scVars, lnVars, p3Vars>>

MultiInplace(op) ==
    /\ fop' = op
    /\ fres' = multi_inplace_func2(op, fa, fb)
    /\ UNCHANGED <<fa, fb>>
    /\ UNCHANGED <<dtVars, klVars, mzVars, scVars, lnVars, p3Vars>>

MultiVdot ==
    /\ fop' = "vdot"
    /\ fres' = multi_vdot(fa, fb)
    /\ UNCHANGED <<fa, fb>>
    /\ UNCHANGED <<dtVars, klVars, mzVars, scVars, lnVars, p3Vars>>

NextMF ==
    \/ \E op \in MultiOps : MultiGenerated(op)
    \/ \E op \in InplaceOps : MultiInplace(op)
    \/ MultiVdot

\* Field.full(domain, 0.) for the domain of key k.
ZeroField(k) == FieldOfScalar(KeyDom(k), Q(0))

\* An entry with None read as the zero field.
ReadZero(entry, k) == IF entry = NoField THEN ZeroField(k) ELSE entry

\* A MultiField with every missing entry replaced by an explicit zero Field.
Filled(mf) == MultiField(mf.mdom, [k \in MKeys |-> ReadZero(mf.val[k], k)])

\* C15: on two MultiFields over one MultiDomain every binary operator and vdot
\* give, entry by entry with None read as zero, what they give after the
\* missing entries of both operands are replaced by explicit zero Fields.
C15_MissingEntryIsZero ==
    (fa.mdom = fb.mdom)
        => /\ fop \in MultiOps =>
                \A k \in MKeys :
                    ReadZero(fres.f.val[k], k).val
                        = multi_func2(fop, Filled(fa), Filled(fb)).f.val[k].val
           /\ fop = "vdot" => fres = multi_vdot(Filled(fa), Filled(fb))

(***************************************************************************)
(* nifty5/operators/scaling_operator.py                                    *)
(***************************************************************************)
\* A scalar: real and imaginary part, whether its type is complex, and
\* whether it is a numpy scalar (True) or a Python number (False).
Num(re, im, cplx, npy) == [re |-> re, im |-> im, cplx |-> cplx, npy |-> npy]

Real(re) == Num(re, Q(0), FALSE, TRUE)

\* The factors an operator is constructed with.
FactorParts == {Q(-1), Q(0), Q(1), Q(4), Norm(1, 4)}

Factors ==
    {Num(re, Q(0), FALSE, npy) : re \in FactorParts, npy \in BOOLEAN}
    \cup {Num(re, im, TRUE, npy) :
            re \in FactorParts, im \in {Q(0), Q(1)}, npy \in BOOLEAN}

\* fct == s for a real number s
NumIs(fct, s) == FEq(fct.re, s) /\ FEq(fct.im, Q(0))

\* np.conj(fct): the result is a numpy scalar.
conj(fct) == [fct EXCEPT !.im = FNeg(@), !.npy = TRUE]

\* a * b
NumMul(a, b) ==
    IF ~a.cplx /\ ~b.cplx
    THEN Num(FMul(a.re, b.re), Q(0), FALSE, TRUE)
    ELSE Num(FSub(FMul(a.re, b.re), FMul(a.im, b.im)),
             FAdd(FMul(a.re, b.im), FMul(a.im, b.re)), TRUE, TRUE)

\* 1./fct for fct that is not a Python zero (that one raises).
Reciprocal(fct) ==
    IF ~fct.cplx THEN [fct EXCEPT !.re = FTrueDiv(Q(1), @)]
    ELSE IF NumIs(fct, Q(0)) THEN [fct EXCEPT !.re = PInf, !.im = NaN]
    ELSE LET den == FAdd(FMul(fct.re, fct.re), FMul(fct.im, fct.im))
         IN [fct EXCEPT !.re = FTrueDiv(fct.re, den),
                        !.im = FTrueDiv(FNeg(fct.im), den)]

\* The operation modes and their bits.
Modes == {"TIMES", "ADJOINT_TIMES", "INVERSE_TIMES", "ADJOINT_INVERSE_TIMES"}

ModeBits(mode) ==
    CASE mode = "TIMES" -> 1
      [] mode = "ADJOINT_TIMES" -> 2
      [] mode = "INVERSE_TIMES" -> 4
      [] mode = "ADJOINT_INVERSE_TIMES" -> 8

RECURSIVE BitAnd(_, _)
BitAnd(a, b) ==
    IF a = 0 \/ b = 0 THEN 0
    ELSE (a % 2) * (b % 2) + 2 * BitAnd(a \div 2, b \div 2)

\* The arguments of _flip_modes: ADJOINT_BIT is 1, INVERSE_BIT is 2.
Trafos == 0..3

ADJOINT_BIT(trafo) == BitAnd(trafo, 1)

INVERSE_BIT(trafo) == BitAnd(trafo, 2)

\* The mode of the original operator that TIMES of the flipped one stands for.
ModeOfTrafo(trafo) ==
    CHOOSE mode \in Modes : ModeBits(mode) = 2 ^ trafo

\* ScalingOperator(factor, domain)
ScalingOperator(factor, domain) ==
    [factor |-> factor, dom |-> domain, capability |-> Modes]

\* A Field with the entries as scalars.
NumField(domain, arr) == [dom |-> domain, val |-> arr]

\* full(domain, 0.)
full(domain, v) == NumField(domain, [i \in 1..FieldSize |-> Real(v)])

\* x*fct
Scaled(x, fct) ==
    NumField(x.dom, [i \in 1..Len(x.val) |-> NumMul(x.val[i], fct)])

\* ScalingOperator.apply
apply(self, x, mode) ==
    IF x.dom # self.dom \/ mode \notin self.capability THEN ValueError
    ELSE IF NumIs(self.factor, Q(1)) THEN Returned(x)
    ELSE IF NumIs(self.factor, Q(0)) THEN Returned(full(self.dom, Q(0)))
    ELSE LET f1 == IF BitAnd(ModeBits(mode), 10) # 0
                   THEN conj(self.factor) ELSE self.factor
             f2 == IF BitAnd(ModeBits(mode), 12) # 0
                   THEN Reciprocal(f1) ELSE f1
         IN Returned(Scaled(x, f2))

ZeroDivisionError == [kind |-> "ZeroDivisionError"]

\* ScalingOperator._flip_modes
_flip_modes(self, trafo) ==
    LET f1 == IF ADJOINT_BIT(trafo) # 0
              THEN conj(self.factor) ELSE self.factor
    IN IF INVERSE_BIT(trafo) # 0
       THEN IF NumIs(f1, Q(0)) /\ ~f1.npy
            THEN ZeroDivisionError
            ELSE [kind |-> "operator",
                  op |-> ScalingOperator(Reciprocal(f1), self.dom)]
       ELSE [kind |-> "operator", op |-> ScalingOperator(f1, self.dom)]

\* np.sqrt of a real number that has a rational root, of inf and of nan.
sqrt(x) ==
    IF x[2] = 0 THEN x
    ELSE CHOOSE r \in {Norm(a, b) : a \in 0..2, b \in 1..2} : FMul(r, r) = x

\* The first test of draw_sample, without the look at the imaginary part.
NotPositiveRealPart(fct) == FLess(fct.re, Q(0))

\* fct.imag != 0. or fct.real < 0.
NotPositive(fct) == ~FEq(fct.im, Q(0)) \/ FLess(fct.re, Q(0))

\* ScalingOperator.draw_sample
draw_sample(self, from_inverse) ==
    LET fct == self.factor
    IN IF NotPositive(fct) THEN ValueError
       ELSE IF FEq(fct.re, Q(0)) /\ from_inverse THEN ValueError
       ELSE [kind |-> "random", random_type |-> "normal", dom |-> self.dom,
             std |-> IF from_inverse THEN FTrueDiv(Q(1), sqrt(fct.re))
                     ELSE sqrt(fct.re)]

Raised(res) == res.kind \in {"ValueError", "ZeroDivisionError", "TypeError"}

\* An entry of the history of calls: the method and its argument.
Called(call, mode, trafo, from_inverse) ==
    [call |-> call, mode |-> mode, trafo |-> trafo,
     from_inverse |-> from_inverse]

InitSC ==
    /\ \E f \in Factors : sO = ScalingOperator(f, "d1")
    /\ sO0 = sO
    /\ \E arr \in [1..FieldSize -> {Real(Q(0)), Real(Q(1)), Real(Q(2))}] :
         sx = NumField("d1", arr)
    /\ sx0 = sx
    /\ sLog = <<>>
    /\ sres = NoResult

\* times, adjoint_times, inverse_times, adjoint_inverse_times of the Field
\* at hand.
ScApply(mode) ==
    /\ Len(sLog) < MaxApplies
    /\ ~Raised(sres)
    /\ sres' = apply(sO, sx, mode)
    /\ sx' = IF sres'.kind = "field" THEN sres'.f ELSE sx
    /\ sLog' = Append(sLog, Called("apply", mode, 0, FALSE))
    /\ UNCHANGED <<sO, sO0, sx0>>
    /\ UNCHANGED <<dtVars, klVars, mzVars, fdVars, lnVars, p3Vars>>

\* The operator at hand is replaced by its adjoint, inverse or both.
ScFlip(trafo) ==
    /\ Len(sLog) < MaxApplies
    /\ ~Raised(sres)
    /\ sres' = _flip_modes(sO, trafo)
    /\ sO' = IF sres'.kind = "operator" THEN sres'.op ELSE sO
    /\ sLog' = Append(sLog, Called("_flip_modes", "", trafo, FALSE))
    /\ UNCHANGED <<sO0, sx, sx0>>
    /\ UNCHANGED <<dtVars, klVars, mzVars, fdVars, lnVars, p3Vars>>

ScDraw(from_inverse) ==
    /\ Len(sLog) < MaxApplies
    /\ ~Raised(sres)
    /\ sres' = draw_sample(sO, from_inverse)
    /\ sLog' = Append(sLog, Called("draw_sample", "", 0, from_inverse))
    /\ UNCHANGED <<sO, sO0, sx, sx0>>
    /\ UNCHANGED <<dtVars, klVars, mzVars, fdVars, lnVars, p3Vars>>

NextSC ==
    \/ \E mode \in Modes : ScApply(mode)
    \/ \E trafo \in Trafos : ScFlip(trafo)
    \/ \E from_inverse \in BOOLEAN : ScDraw(from_inverse)

\* Two arrays hold the same numbers.
SameNumbers(a, b) ==
    /\ Len(a) = Len(b)
    /\ \A i \in 1..Len(a) : a[i].re = b[i].re /\ a[i].im = b[i].im

InverseModes == {"INVERSE_TIMES", "ADJOINT_INVERSE_TIMES"}

\* C16: a ScalingOperator with factor 0 is constructed with all four modes,
\* its inverse and adjoint-inverse operators are formed without a failure,
\* and the first application of an inverse mode fails and returns no Field.
C16_ZeroFactorFailsLazily ==
    (NumIs(sO0.factor, Q(0)) /\ Len(sLog) = 1)
        => /\ sO0.capability = Modes
           /\ (sLog[1].call = "_flip_modes" /\ INVERSE_BIT(sLog[1].trafo) # 0)
                  => sres.kind = "operator"
           /\ (sLog[1].call = "apply" /\ sLog[1].mode \in InverseModes)
                  => Raised(sres)

\* C17: times after inverse_times and inverse_times after times give back the
\* Field, likewise for the adjoint pair, and TIMES of the operator from
\* _flip_modes(t) gives what the original gives in the mode t stands for.
C17_InverseRoundTrip ==
    /\ (Len(sLog) = 2 /\ sLog[1].call = "apply" /\ sLog[2].call = "apply"
        /\ {sLog[1].mode, sLog[2].mode} \in
              {{"TIMES", "INVERSE_TIMES"},
               {"ADJOINT_TIMES", "ADJOINT_INVERSE_TIMES"}})
           => sres.kind = "field" /\ SameNumbers(sres.f.val, sx0.val)
    /\ (Len(sLog) = 2 /\ sLog[1].call = "_flip_modes"
        /\ sLog[2] = Called("apply", "TIMES", 0, FALSE))
           => LET direct == apply(sO0, sx0, ModeOfTrafo(sLog[1].trafo))
              IN /\ sres.kind = direct.kind
                 /\ sres.kind = "field"
                      => SameNumbers(sres.f.val, direct.f.val)

\* C18: draw_sample raises ValueError for a factor that is negative or has an
\* imaginary part, and for factor 0 with from_inverse; for every other factor
\* it returns a normal random Field on the domain of the operator whose std
\* squared is the factor, or its reciprocal with from_inverse.
C18_DrawSamplePositiveOnly ==
    (sLog # <<>> /\ sLog[Len(sLog)].call = "draw_sample")
        => LET fct == sO.factor
               from_inverse == sLog[Len(sLog)].from_inverse
           IN IF \/ ~FEq(fct.im, Q(0))
                 \/ FLess(fct.re, Q(0))
                 \/ (FEq(fct.re, Q(0)) /\ from_inverse)
              THEN sres.kind = "ValueError"
              ELSE /\ sres.kind = "random"
                   /\ sres.random_type = "normal"
                   /\ sres.dom = sO.dom
                   /\ ~FLess(sres.std, Q(0))
                   /\ FMul(sres.std, sres.std)
                        = (IF from_inverse THEN FTrueDiv(Q(1), fct.re)
                           ELSE fct.re)

\* A sample was refused for a factor with an imaginary part, and one was
\* drawn from the inverse of factor 4 and one from factor 0.
C18_Witness ==
    /\ sLog # <<>> /\ sLog[Len(sLog)].call = "draw_sample"
    /\ \/ sO.factor.im # Q(0) /\ sres.kind = "ValueError"
       \/ /\ sO.factor.re = Q(4) /\ sLog[Len(sLog)].from_inverse
          /\ sres.kind = "random" /\ sres.std = Norm(1, 2)
       \/ /\ NumIs(sO.factor, Q(0)) /\ ~sLog[Len(sLog)].from_inverse
          /\ sres.kind = "random"

(***************************************************************************)
(* nifty5/linearization.py                                                 *)
(*                                                                         *)
(* Values and operators are expressions <<tag, arguments>>: a value is a   *)
(* named Field or MultiField or a method applied to values, an operator is *)
(* a constructor or a method of the operator classes applied to its        *)
(* arguments.                                                              *)
(***************************************************************************)
T(tag, args) == <<tag, args>>

Leaf(tag) == <<tag, <<>>>>

Tag(t) == t[1]

Arg(t, i) == t[2][i]

\* The Fields and MultiFields of the script: fx, fy on d1, mx on m1.
BaseValues == {Leaf("fx"), Leaf("fy"), Leaf("mx")}

NoMetric == Leaf("None")

\* The domain of a value.
RECURSIVE ValDom(_)
ValDom(v) ==
    CASE Tag(v) \in {"fx", "fy"} -> "d1"
      [] Tag(v) = "mx" -> "m1"
      [] Tag(v) = "__getitem__" -> KeyDom(Tag(Arg(v, 2)))
      [] Tag(v) = "number" -> ""
      [] OTHER -> ValDom(Arg(v, 1))

\* Methods of Field / MultiField, as expressions.
ValMethod(name, v) == T(name, <<v>>)

ValMethod2(name, v, w) == T(name, <<v, w>>)

Number(s) == T("number", <<Leaf(s)>>)

\* Field.unite is self + other; MultiField.unite merges the entries.
unite(v, w) ==
    IF ValDom(v) = "d1" THEN ValMethod2("__add__", v, w)
    ELSE ValMethod2("unite", v, w)

\* Constructors and methods of the operator classes.
makeOp(v) == T("makeOp", <<v>>)

chain(outer, inner) == T("chain", <<outer, inner>>)

chain_number(op, s) == T("chain_number", <<op, Leaf(s)>>)

RelaxedSumOperator(ops) == T("RelaxedSumOperator", ops)

FieldAdapter(dom, name) == T("FieldAdapter", <<Leaf(dom), Leaf(name)>>)

ScalingOp(factor, dom) == T("ScalingOperator", <<Leaf(factor), Leaf(dom)>>)

NullOperator(dom, tgt) == T("NullOperator", <<Leaf(dom), Leaf(tgt)>>)

RECURSIVE OpDomain(_)
OpDomain(op) ==
    CASE Tag(op) = "makeOp" -> ValDom(Arg(op, 1))
      [] Tag(op) = "chain" -> OpDomain(Arg(op, 2))
      [] Tag(op) = "chain_number" -> OpDomain(Arg(op, 1))
      [] Tag(op) = "RelaxedSumOperator" ->
            IF OpDomain(Arg(op, 1)) = OpDomain(Arg(op, 2))
            THEN OpDomain(Arg(op, 1)) ELSE "union"
      [] Tag(op) = "FieldAdapter" -> Tag(Arg(op, 1))
      [] Tag(op) = "ScalingOperator" -> Tag(Arg(op, 2))
      [] Tag(op) = "NullOperator" -> Tag(Arg(op, 1))
      [] OTHER -> Tag(op)

RECURSIVE OpTarget(_)
OpTarget(op) ==
    CASE Tag(op) = "makeOp" -> ValDom(Arg(op, 1))
      [] Tag(op) = "chain" -> OpTarget(Arg(op, 1))
      [] Tag(op) = "chain_number" -> OpTarget(Arg(op, 1))
      [] Tag(op) = "RelaxedSumOperator" ->
            IF OpTarget(Arg(op, 1)) = OpTarget(Arg(op, 2))
            THEN OpTarget(Arg(op, 1)) ELSE "union"
      [] Tag(op) = "FieldAdapter" -> KeyDom(Tag(Arg(op, 2)))
      [] Tag(op) = "ScalingOperator" -> Tag(Arg(op, 2))
      [] Tag(op) = "NullOperator" -> Tag(Arg(op, 2))
      [] OTHER -> Tag(op)

\* Linearization(val, jac, metric)
Linearization(val, jac, metric) ==
    [kind |-> "Linearization", val |-> val, jac |-> jac, metric |-> metric]

\* A Field, MultiField or number as the other operand.
Plain(v) == [kind |-> "plain", val |-> v, jac |-> NoMetric, metric |-> NoMetric]

make_var(field) == Linearization(field, ScalingOp("1.", ValDom(field)), NoMetric)

make_const(field) ==
    Linearization(field, NullOperator("{}", ValDom(field)), NoMetric)

add_metric(self, metric) == Linearization(self.val, self.jac, metric)

exp(self) ==
    LET tmp == ValMethod("exp", self.val)
    IN Linearization(tmp, chain(makeOp(tmp), self.jac), NoMetric)

log(self) ==
    LET tmp == ValMethod("log", self.val)
    IN Linearization(tmp,
           chain(makeOp(ValMethod2("__rtruediv__", self.val, Number("1."))),
                 self.jac),
           NoMetric)

\* 1.-tmp**2
OneMinusSquare(tmp) ==
    ValMethod2("__rsub__", ValMethod2("__pow__", tmp, Number("2")), Number("1."))

tanh(self) ==
    LET tmp == ValMethod("tanh", self.val)
    IN Linearization(tmp, chain(makeOp(OneMinusSquare(tmp)), self.jac),
                     NoMetric)

positive_tanh(self) ==
    LET tmp == ValMethod("tanh", self.val)
        tmp2 == ValMethod2("__rmul__",
                        ValMethod2("__radd__", tmp, Number("1.")), Number("0.5"))
    IN Linearization(tmp2,
           chain(makeOp(ValMethod2("__rmul__", OneMinusSquare(tmp),
                                Number("0.5"))),
                 self.jac),
           NoMetric)

__getitem__(self, name) ==
    Linearization(ValMethod2("__getitem__", self.val, Leaf(name)),
                  FieldAdapter(OpDomain(self.jac), name), NoMetric)

lin__neg__(self) ==
    Linearization(ValMethod("__neg__", self.val), chain_number(self.jac, "-1"),
                  IF self.metric = NoMetric THEN NoMetric
                  ELSE chain_number(self.metric, "-1"))

\* The metric of a sum when one metric is enough.
SumMetricOfEither(self, other) ==
    IF self.metric # NoMetric \/ other.metric # NoMetric
    THEN RelaxedSumOperator(<<self.metric, other.metric>>)
    ELSE NoMetric

\* met of __add__
SumMetric(self, other) ==
    IF self.metric # NoMetric /\ other.metric # NoMetric
    THEN RelaxedSumOperator(<<self.metric, other.metric>>)
    ELSE NoMetric

lin__add__(self, other) ==
    IF other.kind = "Linearization"
    THEN Linearization(unite(self.val, other.val),
                       RelaxedSumOperator(<<self.jac, other.jac>>),
                       SumMetric(self, other))
    ELSE Linearization(ValMethod2("__add__", self.val, other.val),
                       self.jac, self.metric)

\* -other
Negative(other) ==
    IF other.kind = "Linearization" THEN lin__neg__(other)
    ELSE Plain(ValMethod("__neg__", other.val))

lin__sub__(self, other) == lin__add__(self, Negative(other))

\* The Linearizations a script holds: a variable or a constant, or a function
\* of one, with or without a metric.
PlainLins ==
    LET base == {make_var(v) : v \in BaseValues}
                \cup {make_const(v) : v \in BaseValues}
    IN base \cup {exp(l) : l \in base} \cup {lin__neg__(l) : l \in base}

Lins == PlainLins \cup {add_metric(l, Leaf(m)) : l \in PlainLins, m \in {"M"}}

Others == Lins \cup {Plain(v) : v \in BaseValues} \cup {Plain(Number("2."))}

\* The operands of + and - fit: one domain, or a number.
Fits(self, other) ==
    \/ ValDom(other.val) = ""
    \/ ValDom(other.val) = ValDom(self.val)

InitLN ==
    /\ la \in Lins
    /\ lb \in {o \in Others : Fits(la, o)}
    /\ lop = ""
    /\ lres = NoResult

ElementaryFns == {"exp", "log", "tanh", "positive_tanh"}

LinElementary(f) ==
    /\ lop' = f
    /\ lres' = CASE f = "exp" -> exp(la)
                 [] f = "log" -> log(la)
                 [] f = "tanh" -> tanh(la)
                 [] f = "positive_tanh" -> positive_tanh(la)
    /\ UNCHANGED <<la, lb>>
    /\ UNCHANGED <<dtVars, klVars, mzVars, fdVars, scVars, p3Vars>>

LinGetItem(name) ==
    /\ ValDom(la.val) = "m1"
    /\ lop' = "__getitem__"
    /\ lres' = __getitem__(la, name)
    /\ UNCHANGED <<la, lb>>
    /\ UNCHANGED <<dtVars, klVars, mzVars, fdVars, scVars, p3Vars>>

LinNeg ==
    /\ lop' = "__neg__"
    /\ lres' = lin__neg__(la)
    /\ UNCHANGED <<la, lb>>
    /\ UNCHANGED <<dtVars, klVars, mzVars, fdVars, scVars, p3Vars>>

LinAdd ==
    /\ lop' = "__add__"
    /\ lres' = lin__add__(la, lb)
    /\ UNCHANGED <<la, lb>>
    /\ UNCHANGED <<dtVars, klVars, mzVars, fdVars, scVars, p3Vars>>

LinSub ==
    /\ lop' = "__sub__"
    /\ lres' = lin__sub__(la, lb)
    /\ UNCHANGED <<la, lb>>
    /\ UNCHANGED <<dtVars, klVars, mzVars, fdVars, scVars, p3Vars>>

NextLN ==
    \/ \E f \in ElementaryFns : LinElementary(f)
    \/ \E name \in MKeys : LinGetItem(name)
    \/ LinNeg
    \/ LinAdd
    \/ LinSub

\* An operator as the sequence of the operators chained in it, outermost
\* first; the ScalingOperator with factor 1 is the identity and drops out.
RECURSIVE ChainFactors(_)
ChainFactors(op) ==
    CASE Tag(op) = "chain" -> ChainFactors(Arg(op, 1)) \o ChainFactors(Arg(op, 2))
      [] Tag(op) = "chain_number" ->
            <<ScalingOp(Tag(Arg(op, 2)), OpTarget(Arg(op, 1)))>>
                \o ChainFactors(Arg(op, 1))
      [] Tag(op) = "ScalingOperator" /\ Tag(Arg(op, 1)) = "1." -> <<>>
      [] OTHER -> <<op>>

\* The derivative of an elementary function at the value v.
LocalDerivative(f, v) ==
    LET th == ValMethod("tanh", v)
    IN CASE f = "exp" -> ValMethod("exp", v)
         [] f = "log" -> ValMethod2("__rtruediv__", v, Number("1."))
         [] f = "tanh" ->
               ValMethod2("__rsub__", ValMethod2("__pow__", th, Number("2")),
                       Number("1."))
         [] f = "positive_tanh" ->
               ValMethod2("__rmul__",
                   ValMethod2("__rsub__", ValMethod2("__pow__", th, Number("2")),
                           Number("1.")),
                   Number("0.5"))

\* The value of an elementary function at v.
FunctionValue(f, v) ==
    IF f = "positive_tanh"
    THEN ValMethod2("__rmul__",
             ValMethod2("__radd__", ValMethod("tanh", v), Number("1.")),
             Number("0.5"))
    ELSE ValMethod(f, v)

\* C19: exp, log, tanh and positive_tanh of a Linearization L have the value
\* f(L.val) and the diagonal operator of the local derivative chained after
\* L.jac as Jacobian, with the domain and target of L; item selection L[name]
\* has the selection of name chained after L.jac, and negation has its local
\* operator chained after L.jac.
C19_ChainAfterInputJacobian ==
    /\ lop \in ElementaryFns =>
          /\ lres.val = FunctionValue(lop, la.val)
          /\ lres.jac = chain(makeOp(LocalDerivative(lop, la.val)), la.jac)
          /\ OpDomain(lres.jac) = OpDomain(la.jac)
          /\ OpTarget(lres.jac) = OpTarget(la.jac)
    /\ lop = "__getitem__" =>
          \E name \in MKeys :
             /\ lres.val = ValMethod2("__getitem__", la.val, Leaf(name))
             /\ ChainFactors(lres.jac)
                  = ChainFactors(chain(FieldAdapter(OpTarget(la.jac), name),
                                  la.jac))
    /\ lop = "__neg__" =>
          ChainFactors(lres.jac)
             = <<ScalingOp("-1", OpTarget(la.jac))>> \o ChainFactors(la.jac)

\* C20: the sum of two Linearizations has the value unite(a.val, b.val), the
\* Jacobian RelaxedSumOperator((a.jac, b.jac)) and a metric exactly when both
\* have one, the relaxed sum of the two; adding a number, Field or MultiField
\* changes the value only; a - b is a + (-b) with value, Jacobian and metric
\* of b negated.
C20_SumOfLinearizations ==
    LET b == IF lop = "__sub__" /\ lb.kind = "Linearization"
             THEN Linearization(ValMethod("__neg__", lb.val),
                                chain_number(lb.jac, "-1"),
                                IF lb.metric = NoMetric THEN NoMetric
                                ELSE chain_number(lb.metric, "-1"))
             ELSE IF lop = "__sub__"
             THEN Plain(ValMethod("__neg__", lb.val))
             ELSE lb
    IN lop \in {"__add__", "__sub__"} =>
          IF b.kind = "Linearization"
          THEN /\ lres.val = unite(la.val, b.val)
               /\ lres.jac = RelaxedSumOperator(<<la.jac, b.jac>>)
               /\ (lres.metric # NoMetric)
                     <=> (la.metric # NoMetric /\ b.metric # NoMetric)
               /\ lres.metric # NoMetric
                     => lres.metric
                          = RelaxedSumOperator(<<la.metric, b.metric>>)
          ELSE /\ lres.val = ValMethod2("__add__", la.val, b.val)
               /\ lres.jac = la.jac
               /\ lres.metric = la.metric

\* Two sums of Linearizations were formed: one of two operands with a metric,
\* one where only the left operand has a metric; and a difference of two.
C20_Witness ==
    /\ lb.kind = "Linearization"
    /\ \/ /\ lop = "__add__"
          /\ la.metric # NoMetric /\ lb.metric # NoMetric
          /\ lres.metric = RelaxedSumOperator(<<la.metric, lb.metric>>)
       \/ /\ lop = "__add__"
          /\ la.metric # NoMetric /\ lb.metric = NoMetric
          /\ lres.metric = NoMetric
       \/ /\ lop = "__sub__"
          /\ Tag(lres.jac) = "RelaxedSumOperator"

(***************************************************************************)
(* The parts a specification does not exercise stay as they are.           *)
(***************************************************************************)
IdleFD == fa = 0 /\ fb = 0 /\ fop = "" /\ fres = NoResult

IdleSC ==
    sO = 0 /\ sO0 = 0 /\ sx = 0 /\ sx0 = 0 /\ sLog = <<>> /\ sres = NoResult

IdleLN == la = 0 /\ lb = 0 /\ lop = "" /\ lres = NoResult

IdleEN == ex = 0 /\ eop = 0 /\ eres = NoResult /\ efields = <<>>

IdleVD == vO = 0 /\ vx = 0 /\ vy = 0 /\ vres = NoResult

IdleSH == tdoms = <<>> /\ tobj = NoResult

IdleAD == adv = NoResult /\ advCall = NoResult /\ advLog = <<>>

IdleTC == tcache = <<>> /\ theap = <<>> /\ tlog = <<>>

IdleLJ == lk = 0 /\ lkJit = NoResult /\ lkres = NoResult

IdleUS == uIn = 0 /\ uOut = NoResult

IdleP3 ==
    IdleEN /\ IdleVD /\ IdleSH /\ IdleAD /\ IdleTC /\ IdleLJ /\ IdleUS

IdleNF == IdleMZ /\ IdleFD /\ IdleSC /\ IdleLN /\ IdleP3

(***************************************************************************)
(* Linearization.__mul__ and __rmul__ (nifty5/linearization.py).           *)
(***************************************************************************)
IsNumber(other) == other.kind = "plain" /\ Tag(other.val) = "number"

\* d2.chain(self._jac) + d1.chain(other._jac)
OperatorSum(a, b) == T("op__add__", <<a, b>>)

lin__mul__(self, other) ==
    IF other.kind = "Linearization"
    THEN Linearization(ValMethod2("__mul__", self.val, other.val),
                       OperatorSum(chain(makeOp(other.val), self.jac),
                                   chain(makeOp(self.val), other.jac)),
                       NoMetric)
    ELSE IF IsNumber(other)
    THEN Linearization(ValMethod2("__mul__", self.val, other.val),
                       chain_number(self.jac, Tag(Arg(other.val, 1))),
                       IF self.metric = NoMetric THEN NoMetric
                       ELSE chain_number(self.metric, Tag(Arg(other.val, 1))))
    ELSE Linearization(ValMethod2("__mul__", self.val, other.val),
                       chain(makeOp(other.val), self.jac), NoMetric)

\* s*L and field*L reach __rmul__: float.__mul__ and Field.__mul__ return
\* NotImplemented for a Linearization.
lin__rmul__(self, other) ==
    IF IsNumber(other)
    THEN Linearization(ValMethod2("__mul__", self.val, other.val),
                       chain_number(self.jac, Tag(Arg(other.val, 1))),
                       NoMetric)
    ELSE IF other.kind = "plain"
    THEN Linearization(ValMethod2("__mul__", self.val, other.val),
                       chain(makeOp(other.val), self.jac), NoMetric)
    ELSE Plain(Leaf("None"))

LinMul ==
    /\ lop' = "__mul__"
    /\ lres' = lin__mul__(la, lb)
    /\ UNCHANGED <<la, lb>>
    /\ UNCHANGED <<dtVars, klVars, mzVars, fdVars, scVars, p3Vars>>

LinRMul ==
    /\ lb.kind = "plain"
    /\ lop' = "__rmul__"
    /\ lres' = lin__rmul__(la, lb)
    /\ UNCHANGED <<la, lb>>
    /\ UNCHANGED <<dtVars, klVars, mzVars, fdVars, scVars, p3Vars>>

NextLM ==
    \/ LinMul
    \/ LinRMul

\* C28: for a scalar or a Field other, other*L (__rmul__) and L*other
\* (__mul__) are the same Linearization: the same value, the same Jacobian and
\* the same metric, so both carry a metric when L carries one.
C28_ScalarMulCommutes ==
    lb.kind = "plain" =>
        /\ lop = "__rmul__" => lres = lin__mul__(la, lb)
        /\ lop = "__mul__" => lres = lin__rmul__(la, lb)

(***************************************************************************)
(* nifty5/operators/energy_operators.py. The argument of apply is a Field  *)
(* or a Linearization; Linearization.want_metric, new, real, __rtruediv__  *)
(* and Operator.scale are known by their interface only. Values and        *)
(* operators are expressions over the Fields fx (the argument) and fy.     *)
(***************************************************************************)
IsLin(x) == x.kind = "Linearization"

FieldScalar(v) == T("Field.scalar", <<v>>)

VdotOperator(v) == T("VdotOperator", <<v>>)

SandwichOperator(bun, cheese) == T("SandwichOperator", <<bun, cheese>>)

\* Linearization.sum
lin_sum(self) ==
    Linearization(FieldScalar(ValMethod("sum", self.val)),
                  chain(T("SumReductionOperator", <<Leaf(OpTarget(self.jac))>>),
                        self.jac),
                  NoMetric)

\* Linearization.vdot
lin_vdot(self, other) ==
    IF ~IsLin(other)
    THEN Linearization(FieldScalar(ValMethod2("vdot", self.val, other.val)),
                       chain(VdotOperator(other.val), self.jac), NoMetric)
    ELSE Linearization(FieldScalar(ValMethod2("vdot", self.val, other.val)),
                       OperatorSum(chain(VdotOperator(self.val), other.jac),
                                   chain(VdotOperator(other.val), self.jac)),
                       NoMetric)

\* x.new(val, jac)
new(val, jac) == Linearization(val, jac, NoMetric)

\* 1./x**2 negated, the derivative of 1./x
lin__rtruediv__(self, s) ==
    LET tmp == ValMethod2("__rtruediv__", self.val, Number(s))
    IN new(tmp,
           chain(makeOp(ValMethod("__neg__",
                            ValMethod2("__pow__", tmp, Number("2")))),
                 self.jac))

\* The expressions of apply, for x a Field or a Linearization.
Sum(x) == IF IsLin(x) THEN lin_sum(x) ELSE Plain(ValMethod("sum", x.val))

Log(x) == IF IsLin(x) THEN log(x) ELSE Plain(ValMethod("log", x.val))

Vdot(x, f) ==
    IF IsLin(x) THEN lin_vdot(x, Plain(f))
    ELSE Plain(ValMethod2("vdot", x.val, f))

Add(a, b) ==
    IF IsLin(a) THEN lin__add__(a, b)
    ELSE Plain(ValMethod2("__add__", a.val, b.val))

Sub(a, b) ==
    IF IsLin(a) THEN lin__sub__(a, b)
    ELSE Plain(ValMethod2("__sub__", a.val, b.val))

\* s - x: Linearization.__rsub__ is (-self).__add__(other)
RSub(s, x) ==
    IF IsLin(x) THEN lin__add__(lin__neg__(x), Plain(Number(s)))
    ELSE Plain(ValMethod2("__rsub__", x.val, Number(s)))

RTrueDiv(s, x) ==
    IF IsLin(x) THEN lin__rtruediv__(x, s)
    ELSE Plain(ValMethod2("__rtruediv__", x.val, Number(s)))

RMul(s, x) ==
    IF IsLin(x) THEN lin__rmul__(x, Plain(Number(s)))
    ELSE Plain(ValMethod2("__rmul__", x.val, Number(s)))

\* .real of a Field or a Linearization
real(x) ==
    IF IsLin(x) THEN new(ValMethod("real", x.val), T("real", <<x.jac>>))
    ELSE Plain(ValMethod("real", x.val))

SquaredNormOperator_apply(x) ==
    IF IsLin(x)
    THEN new(FieldScalar(ValMethod2("vdot", x.val, x.val)),
             chain(VdotOperator(ValMethod2("__rmul__", x.val, Number("2"))),
                   x.jac))
    ELSE Plain(FieldScalar(ValMethod2("vdot", x.val, x.val)))

QuadraticFormOperator_apply(op, x) ==
    LET t1 == T("times", <<op, x.val>>)
        val == FieldScalar(ValMethod2("__rmul__",
                               ValMethod2("vdot", x.val, t1), Number("0.5")))
    IN IF IsLin(x) THEN new(val, chain(VdotOperator(t1), x.jac))
       ELSE Plain(val)

\* op.scale(factor) applied to x
scale(r, s) ==
    IF IsLin(r)
    THEN new(ValMethod2("__rmul__", r.val, Number(s)), chain_number(r.jac, s))
    ELSE Plain(ValMethod2("__rmul__", r.val, Number(s)))

\* isinstance(x, Linearization) and x.want_metric, tested before building
\* the metric.
WantsMetricOfAny(x) == IsLin(x)

WantsMetric(x) == IsLin(x) /\ x.want_metric

GaussianEnergy_apply(self, x) ==
    LET residual == IF self.mean = NoMetric THEN x ELSE Sub(x, Plain(self.mean))
        res == real(IF self.icov = NoMetric
                    THEN scale(SquaredNormOperator_apply(residual), "0.5")
                    ELSE QuadraticFormOperator_apply(self.icov, residual))
    IN IF ~WantsMetric(x) THEN res
       ELSE add_metric(res, SandwichOperator(x.jac, self.icov))

PoissonianEnergy_apply(self, x) ==
    LET res == Sub(Sum(x), Vdot(Log(x), self.d))
    IN IF ~IsLin(x) THEN Plain(FieldScalar(res.val))
       ELSE IF ~WantsMetric(x) THEN res
       ELSE add_metric(res,
                SandwichOperator(x.jac,
                    makeOp(ValMethod2("__rtruediv__", x.val, Number("1.")))))

InverseGammaLikelihood_apply(self, x) ==
    LET res == RMul("0.5", Add(Sum(Log(x)), Vdot(RTrueDiv("1.", x), self.d)))
    IN IF ~IsLin(x) THEN Plain(FieldScalar(res.val))
       ELSE IF ~WantsMetric(x) THEN res
       ELSE add_metric(res,
                SandwichOperator(x.jac,
                    makeOp(ValMethod2("__rtruediv__",
                               ValMethod2("__pow__", x.val, Number("2")),
                               Number("0.5")))))

BernoulliEnergy_apply(self, x) ==
    LET v == Sub(Vdot(Log(x), ValMethod("__neg__", self.d)),
                 Vdot(Log(RSub("1.", x)),
                      ValMethod2("__rsub__", self.d, Number("1."))))
        met == makeOp(ValMethod2("__rtruediv__",
                          ValMethod2("__mul__", x.val,
                              ValMethod2("__rsub__", x.val, Number("1."))),
                          Number("1.")))
    IN IF ~IsLin(x) THEN Plain(FieldScalar(v.val))
       ELSE IF ~WantsMetric(x) THEN v
       ELSE add_metric(v, SandwichOperator(x.jac, met))

\* np.log of a float, for the floats whose logarithm is a float again.
FLog(x) ==
    CASE IsNaN(x) -> NaN
      [] x = PInf -> PInf
      [] x = NInf -> NaN
      [] IsZero(x) -> NInf
      [] x = Q(1) -> Q(0)
      [] ~IsNaN(x) /\ ~IsInf(x) /\ Sgn(x) < 0 -> NaN

\* The numbers of a Field or scalar given as an expression.
RECURSIVE Numbers(_, _)
Numbers(t, env) ==
    LET a == Numbers(Arg(t, 1), env)
        b == Numbers(Arg(t, 2), env)
    IN CASE Tag(t) \in DOMAIN env -> env[Tag(t)]
         [] Tag(t) = "Field.scalar" -> a
         [] Tag(t) = "sum" -> <<FSum(a)>>
         [] Tag(t) = "log" -> [i \in 1..Len(a) |-> FLog(a[i])]
         [] Tag(t) = "__neg__" -> [i \in 1..Len(a) |-> FNeg(a[i])]
         [] Tag(t) = "vdot" -> <<FSum(ArrOp("__mul__", a, b))>>
         [] Tag(t) \in {"__add__", "__sub__"} -> ArrOp(Tag(t), a, b)

\* The arguments of apply: the Field fx, or a Linearization with the value fx.
EnergyArgs ==
    {Plain(Leaf("fx"))}
    \cup {[kind |-> "Linearization", val |-> Leaf("fx"), jac |-> j,
           metric |-> m, want_metric |-> w] :
              j \in {ScalingOp("1.", "d1"), Leaf("J")},
              m \in {NoMetric, Leaf("M")}, w \in BOOLEAN}

EnergyOps ==
    {[cls |-> "GaussianEnergy", mean |-> m, icov |-> c, d |-> NoMetric] :
        m \in {NoMetric, Leaf("fy")},
        c \in {NoMetric, T("inverse", <<Leaf("C")>>)}}
    \cup {[cls |-> c, mean |-> NoMetric, icov |-> NoMetric, d |-> Leaf("fy")] :
            c \in {"PoissonianEnergy", "InverseGammaLikelihood",
                   "BernoulliEnergy"}}

PredVals == {Q(-1), Q(0), Q(1)}

DataVals == {Q(0), Q(1), Q(2)}

InitEN ==
    /\ ex \in EnergyArgs
    /\ eop \in EnergyOps
    /\ eres = NoResult
    /\ efields \in [fx : [1..FieldSize -> PredVals],
                    fy : [1..FieldSize -> DataVals]]

GaussianApply ==
    /\ eop.cls = "GaussianEnergy"
    /\ eres' = GaussianEnergy_apply(eop, ex)
    /\ UNCHANGED <<ex, eop, efields>>
    /\ UNCHANGED <<dtVars, klVars, mzVars, fdVars, scVars, lnVars>>
    /\ UNCHANGED <<vdVars, shVars, adVars, tcVars, ljVars, usVars>>

PoissonianApply ==
    /\ eop.cls = "PoissonianEnergy"
    /\ eres' = PoissonianEnergy_apply(eop, ex)
    /\ UNCHANGED <<ex, eop, efields>>
    /\ UNCHANGED <<dtVars, klVars, mzVars, fdVars, scVars, lnVars>>
    /\ UNCHANGED <<vdVars, shVars, adVars, tcVars, ljVars, usVars>>

InverseGammaApply ==
    /\ eop.cls = "InverseGammaLikelihood"
    /\ eres' = InverseGammaLikelihood_apply(eop, ex)
    /\ UNCHANGED <<ex, eop, efields>>
    /\ UNCHANGED <<dtVars, klVars, mzVars, fdVars, scVars, lnVars>>
    /\ UNCHANGED <<vdVars, shVars, adVars, tcVars, ljVars, usVars>>

BernoulliApply ==
    /\ eop.cls = "BernoulliEnergy"
    /\ eres' = BernoulliEnergy_apply(eop, ex)
    /\ UNCHANGED <<ex, eop, efields>>
    /\ UNCHANGED <<dtVars, klVars, mzVars, fdVars, scVars, lnVars>>
    /\ UNCHANGED <<vdVars, shVars, adVars, tcVars, ljVars, usVars>>

NextEN ==
    \/ GaussianApply
    \/ PoissonianApply
    \/ InverseGammaApply
    \/ BernoulliApply

\* apply of the energy operator eop.
EnergyApply(op, x) ==
    CASE op.cls = "GaussianEnergy" -> GaussianEnergy_apply(op, x)
      [] op.cls = "PoissonianEnergy" -> PoissonianEnergy_apply(op, x)
      [] op.cls = "InverseGammaLikelihood" -> InverseGammaLikelihood_apply(op, x)
      [] op.cls = "BernoulliEnergy" -> BernoulliEnergy_apply(op, x)

\* The metric of the likelihood at the value v: the inverse covariance (None
\* for the identity), 1/v, 0.5/v**2 and 1/(v*(1-v)).
BaseMetric(op, v) ==
    CASE op.cls = "GaussianEnergy" -> op.icov
      [] op.cls = "PoissonianEnergy" ->
            makeOp(ValMethod2("__rtruediv__", v, Number("1.")))
      [] op.cls = "InverseGammaLikelihood" ->
            makeOp(ValMethod2("__rtruediv__",
                       ValMethod2("__pow__", v, Number("2")), Number("0.5")))
      [] op.cls = "BernoulliEnergy" ->
            makeOp(ValMethod2("__rtruediv__",
                       ValMethod2("__mul__", v,
                           ValMethod2("__rsub__", v, Number("1."))),
                       Number("1.")))

\* C21: apply(x) of GaussianEnergy, PoissonianEnergy, InverseGammaLikelihood
\* and BernoulliEnergy returns a result with a metric exactly when x is a
\* Linearization with want_metric; the metric is
\* SandwichOperator.make(x.jac, M) with M the base metric of the likelihood,
\* and the value is that of the same call without want_metric.
C21_MetricIffWanted ==
    eres # NoResult =>
        /\ (eres.metric # NoMetric)
              <=> (ex.kind = "Linearization" /\ ex.want_metric)
        /\ eres.metric # NoMetric =>
              /\ eres.metric = SandwichOperator(ex.jac, BaseMetric(eop, ex.val))
              /\ eres.val
                   = EnergyApply(eop, [ex EXCEPT !.want_metric = FALSE]).val

\* A GaussianEnergy with a covariance, and one without, applied to a
\* Linearization with want_metric; and a likelihood applied to a
\* Linearization that has a metric but does not want one.
C21_Witness ==
    /\ eres # NoResult
    /\ ex.kind = "Linearization"
    /\ \/ /\ ex.want_metric
          /\ eop.cls = "GaussianEnergy"
          /\ eres.metric = SandwichOperator(ex.jac, eop.icov)
       \/ /\ ~ex.want_metric
          /\ ex.metric # NoMetric
          /\ eres.metric = NoMetric

\* C22: PoissonianEnergy.apply on an argument that is not strictly positive
\* in every entry raises, and returns neither a value nor a metric; on a
\* strictly positive argument the value is a finite number.
C22_NonPositiveIsAnError ==
    (eres # NoResult /\ eop.cls = "PoissonianEnergy") =>
        IF \E i \in 1..FieldSize : ~FLess(Q(0), efields.fx[i])
        THEN eres.kind = "raised"
        ELSE LET e == Numbers(eres.val, efields)[1]
             IN ~IsNaN(e) /\ ~IsInf(e)

(***************************************************************************)
(* nifty5/operators/vdot_operator.py. Fields hold Gaussian integers;       *)
(* LinearOperator._check_input is known by its interface only.             *)
(***************************************************************************)
\* a + b
NumAdd(a, b) ==
    Num(FAdd(a.re, b.re), FAdd(a.im, b.im), a.cplx \/ b.cplx, TRUE)

RECURSIVE NumSum(_)
NumSum(arr) ==
    IF Len(arr) = 1 THEN Head(arr) ELSE NumAdd(Head(arr), NumSum(Tail(arr)))

\* The sum of a[i]*b[i], nothing conjugated.
PlainDot(a, b) == NumSum([i \in 1..Len(a) |-> NumMul(a[i], b[i])])

\* dobj.vdot (numpy.vdot): the first argument is conjugated.
dobj_vdot(a, b) == NumSum([i \in 1..Len(a) |-> NumMul(conj(a[i]), b[i])])

\* Field.__mul__ for a scalar other and a Field built from an array.
field_mul_scalar(self, s) ==
    IF NumIs(s, Q(1)) THEN self
    ELSE IF NumIs(s, Q(0)) THEN NumField(self.dom, [i \in 1..Len(self.val) |-> s])
    ELSE Scaled(self, s)

\* DomainTuple.scalar_domain(): its Fields have one entry.
ScalarDomain == "scalar"

VdotOp(field) ==
    [cls |-> "VdotOperator", field |-> field, dom |-> field.dom,
     target |-> ScalarDomain, capability |-> {"TIMES", "ADJOINT_TIMES"}]

SumReductionOp(domain) ==
    [cls |-> "SumReductionOperator", field |-> NumField(domain, <<>>),
     dom |-> domain, target |-> ScalarDomain,
     capability |-> {"TIMES", "ADJOINT_TIMES"}]

\* LinearOperator._check_input: the mode is one mode the operator has, and x
\* is on the domain the mode starts from.
_check_input(self, x, mode) ==
    /\ mode \in self.capability
    /\ x.dom = IF mode \in {"TIMES", "ADJOINT_INVERSE_TIMES"}
               THEN self.dom ELSE self.target

VdotOperator_apply(self, x, mode) ==
    IF ~_check_input(self, x, mode) THEN ValueError
    ELSE IF mode = "TIMES"
    THEN Returned(NumField(self.target, <<dobj_vdot(self.field.val, x.val)>>))
    ELSE Returned(field_mul_scalar(self.field, x.val[1]))

SumReductionOperator_apply(self, x, mode) ==
    IF ~_check_input(self, x, mode) THEN ValueError
    ELSE IF mode = "TIMES"
    THEN Returned(NumField(self.target, <<NumSum(x.val)>>))
    ELSE Returned(NumField(self.dom, [i \in 1..FieldSize |-> x.val[1]]))

\* The Gaussian integers of the Fields.
GaussInts ==
    {Num(Q(re), Q(0), FALSE, TRUE) : re \in {0, 1, 2}}
    \cup {Num(Q(0), Q(1), TRUE, TRUE), Num(Q(1), Q(-1), TRUE, TRUE)}

InitVD ==
    /\ vO \in {VdotOp(NumField("d1", arr)) : arr \in [1..FieldSize -> GaussInts]}
              \cup {SumReductionOp("d1")}
    /\ vx \in {NumField("d1", arr) : arr \in [1..FieldSize -> GaussInts]}
    /\ vy \in {NumField(ScalarDomain, <<v>>) : v \in GaussInts}
    /\ vres = [TIMES |-> NoResult, ADJOINT_TIMES |-> NoResult,
               INVERSE_TIMES |-> NoResult, ADJOINT_INVERSE_TIMES |-> NoResult]

\* O.apply(x, mode) for x the Field on the side the mode starts from.
VdApply(mode) ==
    /\ vres[mode] = NoResult
    /\ LET x == IF mode \in {"TIMES", "ADJOINT_INVERSE_TIMES"} THEN vx ELSE vy
       IN vres' = [vres EXCEPT ![mode] =
                      IF vO.cls = "VdotOperator"
                      THEN VdotOperator_apply(vO, x, mode)
                      ELSE SumReductionOperator_apply(vO, x, mode)]
    /\ UNCHANGED <<vO, vx, vy>>
    /\ UNCHANGED <<dtVars, klVars, mzVars, fdVars, scVars, lnVars>>
    /\ UNCHANGED <<enVars, shVars, adVars, tcVars, ljVars, usVars>>

NextVD == \E mode \in Modes : VdApply(mode)

\* <a, b>: the sum of conj(a[i])*b[i].
Inner(a, b) ==
    NumSum([i \in 1..Len(a) |->
               Num(FAdd(FMul(a[i].re, b[i].re), FMul(a[i].im, b[i].im)),
                   FSub(FMul(a[i].re, b[i].im), FMul(a[i].im, b[i].re)),
                   TRUE, TRUE)])

SubDomains == {"s1", "s1b", "s2", "p0"}

\* thing.shape
ShapeOf(thing) ==
    CASE thing \in {"s1", "s1b"} -> <<2>>
      [] thing = "s2" -> <<2, 3>>
      [] thing = "p0" -> <<>>

\* tuple(range(i, i+nax))
range(i, j) == [k \in 1..(j - i) |-> i + k - 1]

\* The loop of DomainTuple._get_axes_tuple from the sub-domain idx on, the
\* counter being i.
RECURSIVE AxesLoop(_, _, _)
AxesLoop(dom, idx, i) ==
    IF idx > Len(dom) THEN <<>>
    ELSE LET nax == Len(ShapeOf(dom[idx]))
         IN <<range(i, i + nax)>> \o AxesLoop(dom, idx + 1, i + nax)

\* The same loop with the counter never advanced.
AxesAllFromZero(dom) == [idx \in 1..Len(dom) |-> range(0, Len(ShapeOf(dom[idx])))]

_get_axes_tuple(dom) == AxesLoop(dom, 1, 0)

\* reduce(lambda x, y: x+y, shapes, ())
RECURSIVE reduce_concat(_, _)
reduce_concat(shapes, initial) ==
    IF shapes = <<>> THEN initial
    ELSE reduce_concat(Tail(shapes), initial \o Head(shapes))

\* reduce(lambda x, y: x*y, shape, 1)
RECURSIVE reduce_mul(_, _)
reduce_mul(shape, initial) ==
    IF shape = <<>> THEN initial
    ELSE reduce_mul(Tail(shape), initial * Head(shape))

\* DomainTuple.__init__
DomainTuple(domain) ==
    LET dom == _parse_domain(domain)
        shape == reduce_concat([i \in 1..Len(dom) |-> ShapeOf(dom[i])], <<>>)
    IN [cls |-> "DomainTuple", dom |-> dom, axes |-> _get_axes_tuple(dom),
        shape |-> shape, size |-> reduce_mul(shape, 1)]

\* Field._get_axes_tuple(things_with_shape, start) of nifty/field.py
RECURSIVE Field_get_axes_tuple(_, _)
Field_get_axes_tuple(things_with_shape, start) ==
    IF things_with_shape = <<>> THEN <<>>
    ELSE LET n == Len(ShapeOf(Head(things_with_shape)))
             l == [j \in 1..n |-> start + j - 1]
         IN <<l>> \o Field_get_axes_tuple(Tail(things_with_shape), start + n)

\* Field.shape of nifty/field.py: reduce without an initial value raises
\* TypeError on the empty tuple, and the shape is () then.
Field_shape(domain) ==
    LET shape_tuple == [i \in 1..Len(domain) |-> ShapeOf(domain[i])]
    IN IF shape_tuple = <<>> THEN <<>>
       ELSE reduce_concat(Tail(shape_tuple), Head(shape_tuple))

\* Field.__init__ of nifty/field.py, as far as domain and axes go.
OldField(domain) ==
    LET dom == _parse_domain(domain)
    IN [cls |-> "Field", dom |-> dom, axes |-> Field_get_axes_tuple(dom, 0),
        shape |-> Field_shape(dom)]

\* What the script passes as domain: None, one Domain, or a tuple of Domains.
DomainArgs ==
    {[kind |-> "none", seq |-> <<>>, obj |-> 0]}
    \cup {[kind |-> "domain", seq |-> <<d>>, obj |-> 0] : d \in SubDomains}
    \cup {[kind |-> "seq", seq |-> s, obj |-> 0] :
             s \in UNION {[1..n -> SubDomains] : n \in 0..MaxDoms}}

InitSH ==
    /\ tdoms \in DomainArgs
    /\ tobj = NoResult

NewDomainTuple ==
    /\ tobj' = DomainTuple(tdoms)
    /\ UNCHANGED tdoms
    /\ UNCHANGED <<dtVars, klVars, mzVars, fdVars, scVars, lnVars>>
    /\ UNCHANGED <<enVars, vdVars, adVars, tcVars, ljVars, usVars>>

NewField ==
    /\ tobj' = OldField(tdoms)
    /\ UNCHANGED tdoms
    /\ UNCHANGED <<dtVars, klVars, mzVars, fdVars, scVars, lnVars>>
    /\ UNCHANGED <<enVars, vdVars, adVars, tcVars, ljVars, usVars>>

NextSH ==
    \/ NewDomainTuple
    \/ NewField

\* The number of pixels of an array of the given shape.
Pixels(shape) ==
    Cardinality({p \in [1..Len(shape) -> 1..3] :
                    \A a \in 1..Len(shape) : p[a] <= shape[a]})

\* C24: the shape of a DomainTuple, and of a Field on a tuple of spaces, is
\* the concatenation of the shapes of the sub-domains in order; the size of a
\* DomainTuple is the product of the shape entries, 1 for the empty one; the
\* sub-domain objects are kept at their index; axes[i] are ranges of
\* consecutive integers, disjoint, ordered by i, covering 0..len(shape)-1.
C24_ShapeSizeAxes ==
    tobj # NoResult =>
        LET n == Len(tdoms.seq)
            axes == tobj.axes
        IN /\ Len(tobj.dom) = n /\ Len(axes) = n
           /\ \A i \in 1..n :
                 /\ tobj.dom[i] = tdoms.seq[i]
                 /\ Len(axes[i]) = Len(ShapeOf(tdoms.seq[i]))
                 /\ \A j \in 1..Len(axes[i]) :
                       /\ j > 1 => axes[i][j] = axes[i][j - 1] + 1
                       /\ axes[i][j] \in 0..(Len(tobj.shape) - 1)
                       /\ tobj.shape[axes[i][j] + 1] = ShapeOf(tdoms.seq[i])[j]
                 /\ \A k \in 1..n : \A j \in 1..Len(axes[i]) :
                       \A m \in 1..Len(axes[k]) :
                          i < k => axes[i][j] < axes[k][m]
           /\ \A a \in 0..(Len(tobj.shape) - 1) :
                 \E i \in 1..n : \E j \in 1..Len(axes[i]) : axes[i][j] = a
           /\ tobj.cls = "DomainTuple" => tobj.size = Pixels(tobj.shape)

\* A DomainTuple of three sub-domains, two of them the same content in two
\* objects and one with two axes.
C24_Witness ==
    /\ tobj # NoResult
    /\ tobj.cls = "DomainTuple"
    /\ tdoms.seq = <<"s1b", "s2", "s1">>
    /\ tobj.shape = <<2, 2, 3, 2>>
    /\ tobj.axes = <<<<0>>, <<1, 2>>, <<3>>>>
    /\ tobj.size = 24

(***************************************************************************)
(* update_state of src/re/optimize_kl.py as a function: the state holds    *)
(* every field of OptVIState, and every entry of the configuration is a    *)
(* function of the iteration number.                                       *)
(***************************************************************************)
\* _getitem(cfg, iiter) for the three kwargs entries.
KwargsAt(c, iiter) ==
    [kl |-> At(c.klk, iiter), sg |-> At(c.sgk, iiter), su |-> At(c.suk, iiter)]

\* update_state, lines 84-98, line 95 included.
update_state_call(st, c, iiter) ==
    [update_state(st, c, KwargsAt(c, iiter), iiter) EXCEPT
        !.sample_generator_kwargs = KwargsAt(c, iiter).sg]

\* The configurations: sampling_method, resample and n_samples vary with the
\* iteration, and the kwargs of every iteration are dicts of their own.
StateCfgs ==
    {[meth |-> m, rs |-> r, nS |-> n,
      klk |-> [j \in 1..MaxCfgIter |-> <<"kl_solver_kwargs", j>>],
      sgk |-> [j \in 1..MaxCfgIter |-> <<"sample_generator_kwargs", j>>],
      suk |-> [j \in 1..MaxCfgIter |-> <<"sample_update_kwargs", j>>]] :
        m \in [1..MaxCfgIter -> Methods], r \in [1..MaxCfgIter -> BOOLEAN],
        n \in [1..MaxCfgIter -> 1..MaxSamples]}

\* The states update_state is called on: fresh, or left by an iteration.
OptVIStates ==
    {[keys |-> <<"k1", "k2">>, nit |-> n, conv |-> FALSE,
      minimization_state |-> <<"minimization_state", n>>,
      sampling_states |-> <<"sampling_states", n>>,
      sample_regenerate |-> b, sample_update |-> b,
      kl_solver_kwargs |-> <<"kl_solver_kwargs", 0>>,
      sample_generator_kwargs |-> <<"sample_generator_kwargs", 0>>,
      sample_update_kwargs |-> <<"sample_update_kwargs", 0>>] :
        n \in {0, 1}, b \in BOOLEAN}

InitUS ==
    /\ uIn \in [state : OptVIStates, cfg : StateCfgs,
                iiter : 0..(MaxCfgIter - 1)]
    /\ uOut = NoResult

UpdateState ==
    /\ uOut' = update_state_call(uIn.state, uIn.cfg, uIn.iiter)
    /\ UNCHANGED uIn
    /\ UNCHANGED <<dtVars, klVars, mzVars, fdVars, scVars, lnVars>>
    /\ UNCHANGED <<enVars, vdVars, shVars, adVars, tcVars, ljVars>>

NextUS == UpdateState

\* C25: update_state(state, cfg, i) sets sample_regenerate exactly when
\* sampling_method(i) is linear or geometric, or i = 0, or resample(i), or
\* n_samples(i) differs from n_samples(i-1); sample_update exactly when
\* sampling_method(i) is geometric or altmetric; the three kwargs fields to
\* the configuration at i; and it leaves every other field as it was.
C25_UpdateStateFrame ==
    uOut # NoResult =>
        LET c == uIn.cfg
            i == uIn.iiter
        IN /\ uOut.sample_regenerate
                <=> \/ c.meth[i + 1] \in {"linear", "geometric"}
                    \/ i = 0
                    \/ c.rs[i + 1]
                    \/ (i > 0 /\ c.nS[i + 1] # c.nS[i])
           /\ uOut.sample_update <=> c.meth[i + 1] \in {"geometric", "altmetric"}
           /\ uOut.kl_solver_kwargs = c.klk[i + 1]
           /\ uOut.sample_generator_kwargs = c.sgk[i + 1]
           /\ uOut.sample_update_kwargs = c.suk[i + 1]
           /\ uOut.keys = uIn.state.keys
           /\ uOut.nit = uIn.state.nit
           /\ uOut.conv = uIn.state.conv
           /\ uOut.minimization_state = uIn.state.minimization_state
           /\ uOut.sampling_states = uIn.state.sampling_states

\* update_state at an iteration after the first, with altmetric sampling, no
\* resampling and the same number of samples, on a state whose flags were
\* set: both flags change; and one with linear sampling alone.
C25_Witness ==
    /\ uOut # NoResult
    /\ uIn.iiter > 0
    /\ ~uIn.cfg.rs[uIn.iiter + 1]
    /\ uIn.cfg.nS[uIn.iiter + 1] = uIn.cfg.nS[uIn.iiter]
    /\ uIn.cfg.meth[uIn.iiter + 1] = "linear"
    /\ ~uIn.state.sample_regenerate /\ ~uIn.state.sample_update
    /\ uOut.sample_regenerate /\ ~uOut.sample_update
    /\ uOut.kl_solver_kwargs = <<"kl_solver_kwargs", uIn.iiter + 1>>

(***************************************************************************)
(* src/minimization/stochastic_minimizer.py. Energies, gradients and       *)
(* positions are expressions; ParametricGaussianKL is known by its         *)
(* interface only.                                                         *)
(***************************************************************************)
\* E.gradient and E.gradient ** 2
gradient(E) == T("gradient", <<E>>)

square(g) == T("__pow__", <<g, Leaf("2")>>)

\* ADVIOptimizer.__init__
ADVIOptimizer(steps) == [steps |-> steps, counter |-> 1, s |-> NoMetric]

\* ADVIOptimizer._step: the new s, the new position x, the new counter.
_step(self, E) ==
    LET s1 == T("alpha*g**2+(1-alpha)*s", <<gradient(E), self.s>>)
        rho == T("rho", <<Leaf(ToString(self.counter)), s1>>)
        new_position == T("position-rho*g", <<E, rho, gradient(E)>>)
    IN [self |-> [self EXCEPT !.s = s1, !.counter = @ + 1],
        x |-> new_position]

\* reset that leaves s as it is.
reset_counter_only(self) == [self EXCEPT !.counter = 1]

\* ADVIOptimizer.reset
reset(self) == [self EXCEPT !.counter = 1, !.s = NoMetric]

\* ParametricGaussianKL.make(x, ...)
ParametricGaussianKL(x) == T("ParametricGaussianKL.make", <<x>>)

NotReturned == [E |-> NoMetric, convergence |-> -1]

\* An entry of the history: a call with the energy given, s after line 63,
\* the steps taken and what was returned; or a reset.
LogEntry(op, E, s0) ==
    [op |-> op, E |-> E, s0 |-> s0, nsteps |-> 0, ret |-> NotReturned]

InitAD ==
    /\ adv \in {ADVIOptimizer(steps) : steps \in 0..MaxSteps}
    /\ advCall = [pc |-> "idle", i |-> 0, E |-> NoMetric]
    /\ advLog = <<>>

\* The energies a caller passes: a fresh one, or the one returned last.
GivenEnergies ==
    {Leaf("E0")}
    \cup {advLog[n].ret.E : n \in {m \in 1..Len(advLog) : advLog[m].op = "__call__"}}

\* __call__, lines 60-65.
AdviCall ==
    /\ advCall.pc = "idle"
    /\ Len(advLog) < MaxAdviCalls
    /\ \E E \in GivenEnergies :
         LET s0 == IF adv.s = NoMetric THEN square(gradient(E)) ELSE adv.s
         IN /\ adv' = [adv EXCEPT !.s = s0]
            /\ advCall' = [pc |-> "loop", i |-> 0, E |-> E]
            /\ advLog' = Append(advLog, LogEntry("__call__", E, s0))
    /\ UNCHANGED <<dtVars, klVars, mzVars, fdVars, scVars, lnVars>>
    /\ UNCHANGED <<enVars, vdVars, shVars, tcVars, ljVars, usVars>>

\* One pass of the loop, lines 66-71.
AdviStep ==
    /\ advCall.pc = "loop"
    /\ advCall.i < adv.steps
    /\ LET r == _step(adv, advCall.E)
       IN /\ adv' = r.self
          /\ advCall' = [advCall EXCEPT !.i = @ + 1,
                                        !.E = ParametricGaussianKL(r.x)]
          /\ advLog' = [advLog EXCEPT ![Len(advLog)].nsteps = @ + 1]
    /\ UNCHANGED <<dtVars, klVars, mzVars, fdVars, scVars, lnVars>>
    /\ UNCHANGED <<enVars, vdVars, shVars, tcVars, ljVars, usVars>>

\* Line 73: return E, convergence.
AdviReturn ==
    /\ advCall.pc = "loop"
    /\ advCall.i >= adv.steps
    /\ advCall' = [advCall EXCEPT !.pc = "idle"]
    /\ advLog' = [advLog EXCEPT ![Len(advLog)].ret =
                     [E |-> advCall.E, convergence |-> 0]]
    /\ UNCHANGED adv
    /\ UNCHANGED <<dtVars, klVars, mzVars, fdVars, scVars, lnVars>>
    /\ UNCHANGED <<enVars, vdVars, shVars, tcVars, ljVars, usVars>>

AdviReset ==
    /\ advCall.pc = "idle"
    /\ Len(advLog) < MaxAdviCalls
    /\ adv' = reset(adv)
    /\ advLog' = Append(advLog, LogEntry("reset", NoMetric, NoMetric))
    /\ UNCHANGED advCall
    /\ UNCHANGED <<dtVars, klVars, mzVars, fdVars, scVars, lnVars>>
    /\ UNCHANGED <<enVars, vdVars, shVars, tcVars, ljVars, usVars>>

NextAD ==
    \/ AdviCall
    \/ AdviStep
    \/ AdviReturn
    \/ AdviReset

\* The steps taken by the calls from entry n of the history on.
RECURSIVE StepsFrom(_, _)
StepsFrom(hist, n) ==
    IF n > Len(hist) THEN 0 ELSE hist[n].nsteps + StepsFrom(hist, n + 1)

\* The index of the last reset, 0 if there was none.
LastReset(hist) ==
    LET rs == {n \in 1..Len(hist) : hist[n].op = "reset"}
    IN IF rs = {} THEN 0 ELSE CHOOSE n \in rs : \A m \in rs : m <= n

\* C26: every finished call of ADVIOptimizer.__call__ has taken exactly steps
\* steps and returned the convergence value 0; counter is 1 plus the steps
\* taken since construction or the last reset, over all calls; reset leaves
\* counter = 1 and s = None, and the call after it starts s as the square of
\* the gradient of the energy it is given.
C26_CounterCarriedOver ==
    adv # NoResult =>
        /\ adv.counter = 1 + StepsFrom(advLog, LastReset(advLog) + 1)
        /\ \A n \in 1..Len(advLog) :
              /\ (advLog[n].op = "__call__" /\ advLog[n].ret # NotReturned) =>
                    /\ advLog[n].nsteps = adv.steps
                    /\ advLog[n].ret.convergence = 0
              /\ (advLog[n].op = "reset" /\ n = Len(advLog)) =>
                    adv.counter = 1 /\ adv.s = NoMetric
              /\ (advLog[n].op = "__call__"
                    /\ (n = 1 \/ advLog[IF n > 1 THEN n - 1 ELSE 1].op = "reset")) =>
                    advLog[n].s0 = square(gradient(advLog[n].E))

\* Two calls of two steps each, then a reset: the second call started with
\* counter = 3 and the energy the first returned, and ended with 5.
C26_Witness ==
    /\ adv # NoResult
    /\ adv.steps = 2
    /\ Len(advLog) = 3
    /\ advLog[1].op = "__call__" /\ advLog[2].op = "__call__"
    /\ advLog[2].E = advLog[1].ret.E
    /\ advLog[2].nsteps = 2
    /\ advLog[3].op = "reset"
    /\ adv.counter = 1

(***************************************************************************)
(* nifty/operators/fft_operator/transformations/transformation_cache.py.   *)
(* Objects live in a heap and are known by their position in it; a         *)
(* transformation class is known by its name, and its constructor by the   *)
(* arguments it was given.                                                 *)
(***************************************************************************)
TransformationClasses == {"RGRGTransformation", "LMGLTransformation"}

TrafoDomains == {"RGSpace", "LMSpace"}

TrafoCodomains == {"RGSpace", "GLSpace"}

TrafoModules == {"None", "fftw"}

\* transformation_class(domain, codomain, module)
transformation_class(cls, domain, codomain, module) ==
    [cls |-> cls, domain |-> domain, codomain |-> codomain, module |-> module]

\* Line 25.
CacheKey(cls, domain, codomain, module) == <<domain, codomain, module>>

\* _TransformationCache.__init__
InitTC ==
    /\ tcache = <<>>
    /\ theap = <<>>
    /\ tlog = <<>>

\* _TransformationCache.create
create(cls, domain, codomain, module) ==
    LET ckey == CacheKey(cls, domain, codomain, module)
        objs == IF ckey \notin DOMAIN tcache
                THEN Append(theap, transformation_class(cls, domain, codomain, module))
                ELSE theap
        cch == IF ckey \notin DOMAIN tcache
                 THEN (ckey :> Len(objs)) @@ tcache
                 ELSE tcache
    IN /\ theap' = objs
       /\ tcache' = cch
       /\ tlog' = Append(tlog, [cls |-> cls, domain |-> domain,
                                codomain |-> codomain, module |-> module,
                                ret |-> cch[ckey]])

Create ==
    /\ Len(tlog) < MaxCreates
    /\ \E cls \in TransformationClasses, domain \in TrafoDomains,
          codomain \in TrafoCodomains, module \in TrafoModules :
         create(cls, domain, codomain, module)
    /\ UNCHANGED <<dtVars, klVars, mzVars, fdVars, scVars, lnVars>>
    /\ UNCHANGED <<enVars, vdVars, shVars, adVars, ljVars, usVars>>

NextTC == Create

\* The four arguments of a call.
CreateArgs(c) == <<c.cls, c.domain, c.codomain, c.module>>

\* No constructor call was made twice with the same four arguments.
ConstructedOnce ==
    \A i, j \in 1..Len(theap) : theap[i] = theap[j] => i = j

\* Calls with the same four arguments return the same object.
SameArgsSameObject ==
    \A n, m \in 1..Len(tlog) :
        CreateArgs(tlog[n]) = CreateArgs(tlog[m]) => tlog[n].ret = tlog[m].ret

\* C27: after any sequence of create calls, what each call returned was
\* constructed as cls(domain, codomain, module) with the class of that call,
\* no constructor ran twice for the same four arguments, and calls with the
\* same four arguments returned the same object.
C27_CreateReturnsItsClass ==
    /\ \A n \in 1..Len(tlog) :
          theap[tlog[n].ret] =
              transformation_class(tlog[n].cls, tlog[n].domain,
                                   tlog[n].codomain, tlog[n].module)
    /\ ConstructedOnce
    /\ SameArgsSameObject

\* What holds of create: the returned object was constructed with the
\* domain, codomain and module of the call, by the class of the first call
\* with these three.
C27_FirstClassWins ==
    /\ \A n \in 1..Len(tlog) :
          LET first == CHOOSE m \in 1..n :
                          /\ CacheKey(tlog[m].cls, tlog[m].domain, tlog[m].codomain, tlog[m].module)
                               = CacheKey(tlog[n].cls, tlog[n].domain, tlog[n].codomain, tlog[n].module)
                          /\ \A k \in 1..(m - 1) :
                                CacheKey(tlog[k].cls, tlog[k].domain, tlog[k].codomain, tlog[k].module)
                                  # CacheKey(tlog[n].cls, tlog[n].domain, tlog[n].codomain, tlog[n].module)
          IN theap[tlog[n].ret] =
                 transformation_class(tlog[first].cls, tlog[n].domain,
                                      tlog[n].codomain, tlog[n].module)
    /\ ConstructedOnce
    /\ SameArgsSameObject

(***************************************************************************)
(* src/likelihood.py. Callables are expressions: a function of the script  *)
(* by its name, jit(f), or the bound method self.metric with the fields of *)
(* self. is1d, tree_leaves and jax.jit are known by their interface only.  *)
(***************************************************************************)
NotImplementedError == [kind |-> "NotImplementedError"]

Value(v) == [kind |-> "value", v |-> v]

\* jax.jit(f)
jit(f) == T("jit", <<f>>)

\* ShapeWithDtype(shape)
ShapeWithDtype(shape) == T("ShapeWithDtype", <<shape>>)

\* sugar.is1d: a flat tuple or list of integers.
is1d(shape) == Tag(shape) = "tuple"

\* Lines 119-127: the shape __init__ stores. A tree is kept when all of its
\* leaves are ShapeWithDtype; a ShapeWithDtype is its own only leaf.
StoredShape(lsm_tangents_shape) ==
    IF lsm_tangents_shape = NoMetric THEN NoMetric
    ELSE IF is1d(lsm_tangents_shape) THEN ShapeWithDtype(lsm_tangents_shape)
    ELSE lsm_tangents_shape

\* Likelihood.__init__
Likelihood(energy, left_sqrt_metric, metric, lsm_tangents_shape) ==
    [_hamiltonian |-> energy,
     _left_sqrt_metric |-> left_sqrt_metric,
     _metric |-> metric,
     _lsm_tan_shp |-> StoredShape(lsm_tangents_shape)]

\* The bound method self.metric.
BoundMetric(self) ==
    T("Likelihood.metric", <<self._hamiltonian, self._left_sqrt_metric,
                             self._metric, self._lsm_tan_shp>>)

RECURSIVE CallOf(_)
RECURSIVE Likelihood_metric(_)
\* f(primals, tangents) for a callable f.
CallOf(f) ==
    IF Tag(f) = "jit" THEN CallOf(Arg(f, 1))
    ELSE IF Tag(f) = "Likelihood.metric"
         THEN Likelihood_metric([_hamiltonian |-> Arg(f, 1),
                                 _left_sqrt_metric |-> Arg(f, 2),
                                 _metric |-> Arg(f, 3),
                                 _lsm_tan_shp |-> Arg(f, 4)])
    ELSE Value(T("__call__", <<f, Leaf("primals"), Leaf("tangents")>>))

\* Likelihood.left_sqrt_metric
Likelihood_left_sqrt_metric(self) ==
    IF self._left_sqrt_metric = NoMetric
    THEN NotImplementedError
    ELSE CallOf(self._left_sqrt_metric)

\* Likelihood.metric: without _metric, vjp runs left_sqrt_metric at primals
\* on ones of the tangents shape, and what that raises is raised.
Likelihood_metric(self) ==
    IF self._metric = NoMetric
    THEN LET lsm == Likelihood_left_sqrt_metric(self)
         IN IF lsm.kind = "value"
            THEN Value(T("lsm_at_p(rsm_at_p(tangents)[0])",
                         <<self._left_sqrt_metric, self._lsm_tan_shp>>))
            ELSE lsm
    ELSE CallOf(self._metric)

\* Likelihood.new
Likelihood_new(self, energy, left_sqrt_metric, metric) ==
    Likelihood(energy, left_sqrt_metric, metric, self._lsm_tan_shp)

\* Likelihood.jit
Likelihood_jit(self) ==
    LET j_lsm == IF self._left_sqrt_metric # NoMetric
                 THEN jit(self._left_sqrt_metric) ELSE NoMetric
        j_m == IF self._left_sqrt_metric # NoMetric
               THEN jit(BoundMetric(self)) ELSE NoMetric
    IN Likelihood_new(self, jit(self._hamiltonian), j_lsm, j_m)

\* The shapes a script passes: none, a flat tuple, a ShapeWithDtype, a tree.
TangentsShapes ==
    {NoMetric, Leaf("tuple"), ShapeWithDtype(Leaf("tuple")),
     T("dict", <<ShapeWithDtype(Leaf("tuple"))>>)}

OptionalCallable(name) == {NoMetric, Leaf(name)}

NotCalled == [on_lk |-> NoResult, on_jit |-> NoResult]

InitLJ ==
    /\ lk \in {Likelihood(Leaf("energy"), l, m, shp) :
                 l \in OptionalCallable("left_sqrt_metric"),
                 m \in OptionalCallable("metric"),
                 shp \in TangentsShapes}
    /\ lkJit = NoResult
    /\ lkres = [metric |-> NotCalled, left_sqrt_metric |-> NotCalled]

Jit ==
    /\ lkJit = NoResult
    /\ lkJit' = Likelihood_jit(lk)
    /\ UNCHANGED <<lk, lkres>>
    /\ UNCHANGED <<dtVars, klVars, mzVars, fdVars, scVars, lnVars>>
    /\ UNCHANGED <<enVars, vdVars, shVars, adVars, tcVars, usVars>>

MetricOnLk ==
    /\ lkres.metric.on_lk = NoResult
    /\ lkres' = [lkres EXCEPT !.metric.on_lk = Likelihood_metric(lk)]
    /\ UNCHANGED <<lk, lkJit>>
    /\ UNCHANGED <<dtVars, klVars, mzVars, fdVars, scVars, lnVars>>
    /\ UNCHANGED <<enVars, vdVars, shVars, adVars, tcVars, usVars>>

MetricOnJit ==
    /\ lkJit # NoResult
    /\ lkres.metric.on_jit = NoResult
    /\ lkres' = [lkres EXCEPT !.metric.on_jit = Likelihood_metric(lkJit)]
    /\ UNCHANGED <<lk, lkJit>>
    /\ UNCHANGED <<dtVars, klVars, mzVars, fdVars, scVars, lnVars>>
    /\ UNCHANGED <<enVars, vdVars, shVars, adVars, tcVars, usVars>>

LsmOnLk ==
    /\ lkres.left_sqrt_metric.on_lk = NoResult
    /\ lkres' = [lkres EXCEPT !.left_sqrt_metric.on_lk =
                                  Likelihood_left_sqrt_metric(lk)]
    /\ UNCHANGED <<lk, lkJit>>
    /\ UNCHANGED <<dtVars, klVars, mzVars, fdVars, scVars, lnVars>>
    /\ UNCHANGED <<enVars, vdVars, shVars, adVars, tcVars, usVars>>

LsmOnJit ==
    /\ lkJit # NoResult
    /\ lkres.left_sqrt_metric.on_jit = NoResult
    /\ lkres' = [lkres EXCEPT !.left_sqrt_metric.on_jit =
                                  Likelihood_left_sqrt_metric(lkJit)]
    /\ UNCHANGED <<lk, lkJit>>
    /\ UNCHANGED <<dtVars, klVars, mzVars, fdVars, scVars, lnVars>>
    /\ UNCHANGED <<enVars, vdVars, shVars, adVars, tcVars, usVars>>

NextLJ ==
    \/ Jit
    \/ MetricOnLk
    \/ MetricOnJit
    \/ LsmOnLk
    \/ LsmOnJit

\* A call that was made on both and did not raise NotImplementedError on lk
\* did not raise it on lk.jit() either.
Supported(calls) ==
    (calls.on_lk # NoResult /\ calls.on_jit # NoResult
        /\ calls.on_lk # NotImplementedError) =>
        calls.on_jit # NotImplementedError

\* C29: lk.jit() has the lsm_tangents_shape of lk, and metric(primals,
\* tangents) and left_sqrt_metric(primals, tangents) each raise
\* NotImplementedError on lk.jit() only if they do on lk, whichever of
\* left_sqrt_metric and metric lk was constructed with.
C29_JitKeepsOperations ==
    lkJit # NoResult =>
        /\ lkJit._lsm_tan_shp = lk._lsm_tan_shp
        /\ Supported(lkres.metric)
        /\ Supported(lkres.left_sqrt_metric)

\* The same for likelihoods constructed with left_sqrt_metric, or without
\* metric.
C29_WithLsmOrWithoutMetric ==
    (lkJit # NoResult
        /\ (lk._left_sqrt_metric # NoMetric \/ lk._metric = NoMetric)) =>
        /\ lkJit._lsm_tan_shp = lk._lsm_tan_shp
        /\ Supported(lkres.metric)
        /\ Supported(lkres.left_sqrt_metric)

(***************************************************************************)
(* Specifications.                                                         *)
(***************************************************************************)
\* One caller: any sequence of calls.
InitDTSeq ==
    InitDT({"t1"}) /\ InitKL({BaseCfg(1)}) /\ IdleNF
SpecDTSeq == InitDTSeq /\ [][NextDT]_vars

\* Two callers whose calls interleave (threads of one process).
InitDTConc ==
    InitDT(ThreadIds) /\ InitKL({BaseCfg(1)}) /\ IdleNF
SpecDTConc == InitDTConc /\ [][NextDT]_vars

InitResume ==
    InitDT({}) /\ InitKL(CfgResume) /\ IdleNF
SpecResume == InitResume /\ [][NextKL]_vars

InitLoop ==
    InitDT({}) /\ InitKL(CfgLoop) /\ IdleNF
SpecLoop == InitLoop /\ [][NextKL]_vars

InitCallables ==
    InitDT({}) /\ InitKL(CfgCallables) /\ IdleNF
SpecCallables == InitCallables /\ [][NextKL]_vars

InitKeys ==
    InitDT({}) /\ InitKL(CfgKeys) /\ IdleNF
SpecKeys == InitKeys /\ [][NextKL]_vars

InitVerbosity ==
    InitDT({}) /\ InitKL(CfgVerbosity) /\ IdleNF
SpecVerbosity == InitVerbosity /\ [][NextKL]_vars

\* scipy_minimizer.py: one call of a minimizer on one energy.
InitMin ==
    InitDT({}) /\ InitKL({BaseCfg(1)}) /\ InitMZ /\ IdleFD /\ IdleSC /\ IdleLN
       /\ IdleP3
SpecMin == InitMin /\ [][NextMZ]_vars

\* field.py: one pair of Fields and the calls a script makes on them.
InitField ==
    InitDT({}) /\ InitKL({BaseCfg(1)}) /\ IdleMZ /\ InitFD /\ IdleSC /\ IdleLN
       /\ IdleP3
SpecField == InitField /\ [][NextFD]_vars

\* multi_field.py: one pair of MultiFields and the calls made on them.
InitMulti ==
    InitDT({}) /\ InitKL({BaseCfg(1)}) /\ IdleMZ /\ InitMF /\ IdleSC /\ IdleLN
       /\ IdleP3
SpecMulti == InitMulti /\ [][NextMF]_vars

\* scaling_operator.py: one operator, one Field and a few calls on them.
InitScaling ==
    InitDT({}) /\ InitKL({BaseCfg(1)}) /\ IdleMZ /\ IdleFD /\ InitSC /\ IdleLN
       /\ IdleP3
SpecScaling == InitScaling /\ [][NextSC]_vars

\* linearization.py: one Linearization, another operand and the calls made.
InitLin ==
    InitDT({}) /\ InitKL({BaseCfg(1)}) /\ IdleMZ /\ IdleFD /\ IdleSC /\ InitLN
       /\ IdleP3
SpecLin == InitLin /\ [][NextLN]_vars

\* linearization.py: products of a Linearization with another operand.
InitLinMul ==
    InitDT({}) /\ InitKL({BaseCfg(1)}) /\ IdleMZ /\ IdleFD /\ IdleSC /\ InitLN
       /\ IdleP3
SpecLinMul == InitLinMul /\ [][NextLM]_vars

\* energy_operators.py: one energy operator applied to one argument.
InitEnergy ==
    InitDT({}) /\ InitKL({BaseCfg(1)}) /\ IdleMZ /\ IdleFD /\ IdleSC /\ IdleLN
       /\ InitEN /\ IdleVD /\ IdleSH /\ IdleAD /\ IdleTC /\ IdleLJ /\ IdleUS
SpecEnergy == InitEnergy /\ [][NextEN]_vars

\* vdot_operator.py: one operator, one Field on each side, each mode applied.
InitVdot ==
    InitDT({}) /\ InitKL({BaseCfg(1)}) /\ IdleMZ /\ IdleFD /\ IdleSC /\ IdleLN
       /\ IdleEN /\ InitVD /\ IdleSH /\ IdleAD /\ IdleTC /\ IdleLJ /\ IdleUS
SpecVdot == InitVdot /\ [][NextVD]_vars

\* domain_tuple.py, nifty/field.py: one tuple of sub-domains, one object on it.
InitShape ==
    InitDT({}) /\ InitKL({BaseCfg(1)}) /\ IdleMZ /\ IdleFD /\ IdleSC /\ IdleLN
       /\ IdleEN /\ IdleVD /\ InitSH /\ IdleAD /\ IdleTC /\ IdleLJ /\ IdleUS
SpecShape == InitShape /\ [][NextSH]_vars

\* optimize_kl.py: one call of update_state.
InitUpdateState ==
    InitDT({}) /\ InitKL({BaseCfg(1)}) /\ IdleMZ /\ IdleFD /\ IdleSC /\ IdleLN
       /\ IdleEN /\ IdleVD /\ IdleSH /\ IdleAD /\ IdleTC /\ IdleLJ /\ InitUS
SpecUpdateState == InitUpdateState /\ [][NextUS]_vars

\* stochastic_minimizer.py: one ADVIOptimizer, called and reset a few times.
InitAdvi ==
    InitDT({}) /\ InitKL({BaseCfg(1)}) /\ IdleMZ /\ IdleFD /\ IdleSC /\ IdleLN
       /\ IdleEN /\ IdleVD /\ IdleSH /\ InitAD /\ IdleTC /\ IdleLJ /\ IdleUS
SpecAdvi == InitAdvi /\ [][NextAD]_vars

\* transformation_cache.py: the module's one cache, a few create calls.
InitTrafoCache ==
    InitDT({}) /\ InitKL({BaseCfg(1)}) /\ IdleMZ /\ IdleFD /\ IdleSC /\ IdleLN
       /\ IdleEN /\ IdleVD /\ IdleSH /\ IdleAD /\ InitTC /\ IdleLJ /\ IdleUS
SpecTrafoCache == InitTrafoCache /\ [][NextTC]_vars

\* likelihood.py: one Likelihood, jit() once, metric and left_sqrt_metric
\* called on both.
InitLikelihoodJit ==
    InitDT({}) /\ InitKL({BaseCfg(1)}) /\ IdleMZ /\ IdleFD /\ IdleSC /\ IdleLN
       /\ IdleEN /\ IdleVD /\ IdleSH /\ IdleAD /\ IdleTC /\ InitLJ /\ IdleUS
SpecLikelihoodJit == InitLikelihoodJit /\ [][NextLJ]_vars

====
